---- MODULE Spec2Model ----
(***************************************************************************)
(* Warehouse bot: the dialogue engine of src/main.py (aiogram routers,     *)
(* FSM states, handlers) composed with the inventory store of src/db.py    *)
(* (SQLite tables items, warehouses, admins, movements).                   *)
(*                                                                         *)
(* Conventions.  Quantities (SQLite REAL, Python float) are integers, the  *)
(* fractions listed in FloatText with their binary64 sums, and NaN.        *)
(* Python None / SQL NULL is NoneVal.  Texts are finite tokens; Cyrillic   *)
(* literals of the source are transliterated ("da" for the confirmation    *)
(* word, "sht" for the default unit, "otmena" for the cancel word).        *)
(* A handler is one atomic action: aiogram's filters, the handler body and *)
(* every db call it awaits.                                                *)
(***************************************************************************)
EXTENDS Integers, Sequences, FiniteSets, TLC

\* ------------------------------------------------------------------ bounds
\* Spec: the number of items ever inserted and of movements ever recorded.
DialogItems == 1
DialogMoves == 1

\* ------------------------------------------------------- program constants
PAGE_SIZE == 10

NoneVal == "None"
DEFAULT_UNIT == "sht"
CONFIRM_WORD == "da"

\* Telegram identities.  super_admins is Config.super_admins (process-wide).
Users == {1, 2, 3}
super_admins == {1}

\* Button captions imported from constants.py; only their being pairwise
\* distinct, non-numeric captions matters.
BTN_ADD_ITEM == "BTN_ADD_ITEM"
BTN_ADMIN == "BTN_ADMIN"
BTN_ADJUST_QTY == "BTN_ADJUST_QTY"
BTN_BULK_ADD == "BTN_BULK_ADD"
BTN_CANCEL == "BTN_CANCEL"
BTN_DELETE_ITEM == "BTN_DELETE_ITEM"
BTN_EXPORT_CSV == "BTN_EXPORT_CSV"
BTN_HELP == "BTN_HELP"
BTN_HISTORY == "BTN_HISTORY"
BTN_LOW_STOCK == "BTN_LOW_STOCK"
BTN_LIST_ITEMS == "BTN_LIST_ITEMS"
BTN_REPORTS == "BTN_REPORTS"
BTN_SEARCH == "BTN_SEARCH"
BTN_SETTINGS == "BTN_SETTINGS"
BTN_SET_QTY == "BTN_SET_QTY"
BTN_WAREHOUSES == "BTN_WAREHOUSES"
BTN_WAREHOUSE == "BTN_WAREHOUSE"

\* F.text.in_({BTN_CANCEL, "Otmena", "otmena", "<stop> Otmena"})
CancelTexts == {BTN_CANCEL, "Otmena", "otmena", "StopOtmena"}

\* --------------------------------------------------------- text functions
\* str.strip() on the texts of the model: padded tokens lose their padding.
Strip(t) ==
    CASE t = " a " -> "a"
      [] t = " 1 " -> "1"
      [] t = " "   -> ""
      [] OTHER     -> t

\* SQLite lower(): folds ASCII letters only.
SqlLower(s) ==
    CASE s = "A" -> "a"
      [] s = "B" -> "b"
      [] OTHER   -> s

\* str.isdigit() and int() on the texts of the model.
IsDigit(t) == t \in {"0", "1", "2", "3", "4"}

ToInt(t) ==
    CASE t = "0" -> 0
      [] t = "1" -> 1
      [] t = "2" -> 2
      [] t = "3" -> 3
      [] t = "4" -> 4

\* ---------------------------------------------------------------- numbers
\* items.qty, items.min_qty and movements.delta are REAL columns and
\* parse_number returns a float: binary64.  The integers of the model are
\* small, and binary64 adds and subtracts them exactly.  The numbers of the
\* model that are no integers are 0.3, -0.3 and the values that adding
\* integers to them rounds to, between -2.5 and 2.5.  FloatText lists their
\* shortest decimal forms in increasing order, and the k-th of them is
\* written Fraction + k.
Fraction == 1000

FloatText ==
    <<"-2.3", "-1.7000000000000002", "-1.7", "-1.3",
      "-1.2999999999999998", "-0.7000000000000002", "-0.7", "-0.30000000000000004",
      "-0.3", "-0.2999999999999998", "0.2999999999999998", "0.3",
      "0.30000000000000004", "0.7", "0.7000000000000002", "1.2999999999999998",
      "1.3", "1.7", "1.7000000000000002", "2.3">>

IsFraction(x) == x > Fraction /\ x <= Fraction + Len(FloatText)

\* float("nan"): a float that is no number.  SQLite binds it as NULL, which
\* the NOT NULL columns qty, min_qty and delta refuse with an IntegrityError.
NaN == 999

\* binary64 addition of an integer to a fraction: row k holds the numbers of
\* the fractions that the k-th fraction plus -2, -1, 0, 1 and 2 round to (0:
\* the sum is beyond 2.5, outside the model).
FractionSum ==
    <<<< 0,  0,  1,  5, 10>>, << 0,  0,  2,  6, 11>>, << 0,  0,  3,  7, 13>>,
      << 0,  1,  4,  8, 14>>, << 0,  1,  5, 10, 15>>, << 0,  2,  6, 11, 16>>,
      << 0,  3,  7, 13, 17>>, << 1,  4,  8, 14, 18>>, << 1,  4,  9, 14, 18>>,
      << 1,  5, 10, 15, 19>>, << 2,  6, 11, 16, 20>>, << 3,  7, 12, 17, 20>>,
      << 3,  7, 13, 17, 20>>, << 4,  8, 14, 18,  0>>, << 5, 10, 15, 19,  0>>,
      << 6, 11, 16, 20,  0>>, << 7, 13, 17, 20,  0>>, << 8, 14, 18,  0,  0>>,
      <<10, 15, 19,  0,  0>>, <<11, 16, 20,  0,  0>>>>

\* -x: the fractions are listed symmetrically.
FloatNeg(x) ==
    IF x = NaN THEN NaN
    ELSE IF IsFraction(x) THEN Fraction + (Len(FloatText) + 1 - (x - Fraction))
    ELSE 0 - x

\* x + y as SQLite and Python compute it, for numbers that are not both fractions.
FloatAdd(x, y) ==
    IF x = NaN \/ y = NaN THEN NaN
    ELSE IF IsFraction(x) THEN Fraction + FractionSum[x - Fraction][y + 3]
    ELSE IF IsFraction(y) THEN Fraction + FractionSum[y - Fraction][x + 3]
    ELSE x + y

\* x - y
FloatSub(x, y) == FloatAdd(x, FloatNeg(y))

\* The order of the numbers: each one in hundredths, the last digit telling
\* the fractions that round to the same tenth apart.
Hundredths(x) ==
    IF IsFraction(x)
    THEN <<-230, -171, -170, -130, -129, -71, -70, -31, -30, -29,
           29, 30, 31, 70, 71, 129, 130, 170, 171, 230>>[x - Fraction]
    ELSE 100 * x

\* x <= y on the numbers; a comparison with NaN (NULL) is not true.
FloatLe(x, y) == x # NaN /\ y # NaN /\ Hundredths(x) <= Hundredths(y)

\* utils.parse_number: strip, drop spaces, comma -> dot, float(); <<>> is None.
parse_number(t) ==
    CASE t \in {"0", "0,0", "0.0"}  -> <<0>>
      [] t \in {"1", " 1 ", "+1"}   -> <<1>>
      [] t \in {"2", "2,0", "2.0"}  -> <<2>>
      [] t = "3"                    -> <<3>>
      [] t = "4"                    -> <<4>>
      [] t = "5"                    -> <<5>>
      [] t = "-1"                   -> <<-1>>
      [] t = "-2"                   -> <<-2>>
      [] t = "-3"                   -> <<-3>>
      [] t \in {"0.3", "0,3"}       -> <<Fraction + 12>>
      [] t \in {"nan", "NaN"}       -> <<NaN>>
      [] OTHER                      -> <<>>

\* ------------------------------------------------------------------ state
VARIABLES
    admins,       \* table admins: the tg_id column
    items,        \* table items: set of rows
    nextItemId,   \* items.id AUTOINCREMENT: the next id
    warehouses,   \* table warehouses: set of rows [id, name]
    nextWhId,     \* warehouses.id AUTOINCREMENT: the next id
    movements,    \* table movements: rows in insertion order
    nextMoveId,   \* movements.id AUTOINCREMENT: the next id
    sessions,     \* MemoryStorage: per user [state, data]
    last          \* the event handled last: [user, handler, reply, ...]

vars ==
    <<admins, items, nextItemId, warehouses, nextWhId, movements, nextMoveId, sessions, last>>

tables == <<admins, items, nextItemId, warehouses, nextWhId, movements, nextMoveId>>

\* FSMContext data: a dict, here a function on the keys present.
EmptyData == [k \in {} |-> NoneVal]

\* state.update_data(k=v)
Put(d, k, v) == [x \in (DOMAIN d) \cup {k} |-> IF x = k THEN v ELSE d[x]]

\* dict.get(k): None when the key is absent.
Get(d, k) == IF k \in DOMAIN d THEN d[k] ELSE NoneVal

Has(d, k) == k \in DOMAIN d

\* state.clear(): no state and empty data.
Cleared == [state |-> NoneVal, data |-> EmptyData]

StateOf(u) == sessions[u].state

DataOf(u) == sessions[u].data

\* ------------------------------------------------------------ db: lookups
\* Database.is_admin
is_admin(u) == u \in admins

\* Every user passes for a super-admin.
is_super_admin_anyone(u) == TRUE

\* is_super_admin(user_id, config)
is_super_admin(u) == u \in super_admins

\* Database.get_item_by_id: the rows fetchone() can return ({} is None).
get_item_by_id(id) == {i \in items : i.id = id}

\* Database.get_item_by_sku: WHERE lower(sku) = lower(?), no ORDER BY, so
\* fetchone() returns any one of the matching rows.
get_item_by_sku(sku) == {i \in items : SqlLower(i.sku) = SqlLower(sku)}

\* Database.get_item_by_key
get_item_by_key(key) ==
    LET k == Strip(key) IN
    IF IsDigit(k) /\ get_item_by_id(ToInt(k)) # {}
    THEN get_item_by_id(ToInt(k))
    ELSE get_item_by_sku(k)

\* Database.get_warehouse_by_id / get_warehouse_by_name (name = ?, BINARY).
get_warehouse_by_id(id) == {w \in warehouses : w.id = id}

get_warehouse_by_name(whs, name) == {w \in whs : w.name = name}

\* Database.count_items / count_items_by_warehouse
count_items == Cardinality(items)

count_items_by_warehouse(wname) ==
    IF wname = NoneVal THEN count_items
    ELSE Cardinality({i \in items : i.warehouse = wname})

\* The query without "min_qty > 0".
list_low_stock_zero_min == {i \in items : FloatLe(i.qty, i.min_qty)}

\* Database.list_low_stock: WHERE min_qty > 0 AND qty <= min_qty
list_low_stock == {i \in items : Hundredths(i.min_qty) > 0 /\ FloatLe(i.qty, i.min_qty)}

\* ------------------------------------------------------------ db: writes
\* items.sku TEXT UNIQUE: the default BINARY collation, so two skus collide
\* only when they are the same string.
SkuUnique(its, sku) == \A i \in its : i.sku # sku

ItemRow(id, sku, name, qty, unit, location, warehouse, min_qty) ==
    [id |-> id, sku |-> sku, name |-> name, qty |-> qty, unit |-> unit,
     location |-> location, warehouse |-> warehouse, min_qty |-> min_qty]

\* Database.add_item on a given items table: TRUE iff the INSERT succeeds
\* (sku UNIQUE, qty and min_qty NOT NULL).
add_item_ok(its, sku, qty, min_qty) == SkuUnique(its, sku) /\ qty # NaN /\ min_qty # NaN

\* Database.update_item_qty: UPDATE items SET qty = ? WHERE id = ?
update_item_qty(its, id, new_qty) ==
    {IF i.id = id THEN [i EXCEPT !.qty = new_qty] ELSE i : i \in its}

\* Database.adjust_item_qty: UPDATE items SET qty = qty + ? WHERE id = ?
adjust_item_qty(its, id, delta) ==
    {IF i.id = id THEN [i EXCEPT !.qty = FloatAdd(i.qty, delta)] ELSE i : i \in its}

\* Database.update_item_fields with the single keyword update_item_value passes:
\* a value of None adds no column to the UPDATE (only updated_at is written).
SetField(i, field, value) ==
    IF value = NoneVal THEN i
    ELSE CASE field = "name"      -> [i EXCEPT !.name = value]
           [] field = "sku"       -> [i EXCEPT !.sku = value]
           [] field = "unit"      -> [i EXCEPT !.unit = value]
           [] field = "location"  -> [i EXCEPT !.location = value]
           [] field = "warehouse" -> [i EXCEPT !.warehouse = value]

\* The UPDATE on a table whose sku column is not declared UNIQUE.
update_item_fields_ok_any(id, field, value) == TRUE

\* TRUE iff the UPDATE raises no IntegrityError (sku UNIQUE, min_qty NOT NULL).
update_item_fields_ok(id, field, value) ==
    \/ get_item_by_id(id) = {}
    \/ /\ field = "sku" => \A i \in items : i.id # id => i.sku # value
       /\ field = "min_qty" => value # NaN

update_item_fields(id, field, value) ==
    {IF i.id = id
     THEN (IF field = "min_qty" THEN [i EXCEPT !.min_qty = value]
           ELSE SetField(i, field, value))
     ELSE i : i \in items}

\* Database.delete_item with ON DELETE CASCADE on movements.item_id.
delete_item_rows(id) == {i \in items : i.id # id}

\* The movements table declared without ON DELETE CASCADE (and foreign keys
\* not enforced): the rows of a deleted item stay.
delete_item_moves_kept(id) == movements

delete_item_moves(id) == SelectSeq(movements, LAMBDA m : m.item_id # id)

\* Database.add_movement: the row appended (FOREIGN KEY item_id checked by caller).
MoveRow(id, item_id, delta, note, u) ==
    [id |-> id, item_id |-> item_id, delta |-> delta, note |-> note, admin_tg_id |-> u]

\* Database.add_warehouse on given tables: warehouses.name TEXT UNIQUE.
add_warehouse_ok(whs, name) == \A w \in whs : w.name # name

WhRow(id, name) == [id |-> id, name |-> name]

\* ---------------------------------------------------------------- replies
\* page, pages, kb_page: the page shown, total_pages and the page handed to the
\* keyboard by a list handler; lines, created, skipped, errors: the BulkAdd
\* text and the report on it.
Event(u, h, r) ==
    [user |-> u, handler |-> h, reply |-> r, page |-> 0, pages |-> 0, kb_page |-> 0,
     lines |-> <<>>, created |-> 0, skipped |-> 0, errors |-> <<>>]

Reply(u, h, r) == last' = Event(u, h, r)

\* A storage with one record for all users.
SetSession_shared(u, st, d) == sessions' = [v \in Users |-> [state |-> st, data |-> d]]

\* MemoryStorage keeps one record per user: FSMContext writes the record of
\* the user of the event.
SetSession(u, st, d) == sessions' = [sessions EXCEPT ![u] = [state |-> st, data |-> d]]

DENIED == "denied"

UNHANDLED == "unhandled_error"

\* ---------------------------------------------------------------- routing
\* dp.include_router(admin_router) comes first and is filtered by IsAdmin; its
\* message handlers are tried in registration order and the first whose
\* filter (text or FSM state) matches runs.  MsgRoute names that handler for
\* an admin in FSM state st sending text t.
MsgRoute(st, t) ==
    IF t = "/menu" THEN "cmd_menu"
    ELSE IF t = "/admin" THEN "cmd_admin"
    ELSE IF t = "/id" THEN "cmd_id"
    ELSE IF t \in {"/help", BTN_HELP} THEN "cmd_help"
    ELSE IF t = "/cancel" THEN "cmd_cancel"
    ELSE IF t \in CancelTexts THEN "cancel_any_state"
    ELSE IF t = BTN_WAREHOUSE THEN "menu_warehouse"
    ELSE IF t = BTN_BULK_ADD THEN "bulk_add_start"
    ELSE IF t = BTN_REPORTS THEN "menu_reports"
    ELSE IF t = BTN_ADMIN THEN "menu_admin"
    ELSE IF t = BTN_SETTINGS THEN "menu_settings"
    ELSE IF t = BTN_WAREHOUSES THEN "menu_warehouses"
    ELSE IF t = BTN_ADD_ITEM THEN "add_item_start"
    ELSE IF st = "AddItem:sku" THEN "add_item_sku"
    ELSE IF st = "AddItem:name" THEN "add_item_name"
    ELSE IF st = "AddItem:qty" THEN "add_item_qty"
    ELSE IF st = "AddItem:unit" THEN "add_item_unit"
    ELSE IF st = "AddItem:location" THEN "add_item_location"
    ELSE IF st = "AddItem:min_qty" THEN "add_item_min"
    ELSE IF t = BTN_ADJUST_QTY THEN "adjust_qty_start"
    ELSE IF st = "AdjustItem:key" THEN "adjust_qty_key"
    ELSE IF st = "AdjustItem:delta" THEN "adjust_qty_delta"
    ELSE IF st = "AdjustItem:note" THEN "adjust_qty_note"
    ELSE IF t = BTN_SET_QTY THEN "set_qty_start"
    ELSE IF st = "SetQty:key" THEN "set_qty_key"
    ELSE IF st = "SetQty:qty" THEN "set_qty_value"
    ELSE IF st = "SetQty:note" THEN "set_qty_note"
    ELSE IF t = BTN_DELETE_ITEM THEN "delete_item_start"
    ELSE IF st = "DeleteItem:key" THEN "delete_item_key"
    ELSE IF st = "DeleteItem:confirm" THEN "delete_item_confirm"
    ELSE IF t = BTN_SEARCH THEN "search_menu"
    ELSE IF st = "SearchItem:query" THEN "search_run"
    ELSE IF t = BTN_LIST_ITEMS THEN "list_items_message"
    ELSE IF t = BTN_LOW_STOCK THEN "low_stock"
    ELSE IF t = BTN_EXPORT_CSV THEN "export_csv"
    ELSE IF t = BTN_HISTORY THEN "history"
    ELSE IF st = "AddWarehouse:name" THEN "warehouse_add_name"
    ELSE IF st = "UpdateItem:key" THEN "update_item_key"
    ELSE IF st = "UpdateItem:field" THEN "update_item_field"
    ELSE IF st = "UpdateItem:value" THEN "update_item_value"
    ELSE IF st = "AddAdmin:tg_id" THEN "admin_add_tg_id"
    ELSE IF st = "AddAdmin:name" THEN "admin_add_name"
    ELSE IF st = "RemoveAdmin:tg_id" THEN "admin_remove_tg_id"
    ELSE IF st = "BulkAdd:lines" THEN "bulk_add_process"
    ELSE "admin_unknown"

\* The routing with admin_router registered without its IsAdmin filter.
Routed_unfiltered(u, t, h) == MsgRoute(StateOf(u), t) = h

\* An admin's text message t reaches handler h.
Routed(u, t, h) == is_admin(u) /\ MsgRoute(StateOf(u), t) = h

\* Callback data "cmd", "cmd:arg" or "warehouse_filter:arg:sort:page".
Cb(cmd, arg) == [cmd |-> cmd, arg |-> arg, sort |-> "name", page |-> 0]

\* The admin_router callback handler for callback c in FSM state st; the
\* prefixes are disjoint, so only the two state filters decide.  "none": no
\* admin_router handler matches and the event goes on to public_router.
CbRoute(st, c) ==
    CASE c.cmd = "bulk_add" -> "bulk_add_start"
      [] c.cmd = "settings_menu" -> "settings_menu_cb"
      [] c.cmd = "warehouses_menu" -> "warehouses_menu_cb"
      [] c.cmd = "back_to_main" -> "back_to_main"
      [] c.cmd = "add_item" -> "add_item_start"
      [] c.cmd = "prefill_item" -> "add_item_prefill"
      [] c.cmd = "warehouse_select" ->
            (IF st = "AddItem:warehouse" THEN "add_item_warehouse_select" ELSE "none")
      [] c.cmd = "adjust_qty" -> "adjust_qty_start"
      [] c.cmd = "set_qty" -> "set_qty_start"
      [] c.cmd = "delete_item" -> "delete_item_start"
      [] c.cmd = "search" -> "search_start_cb"
      [] c.cmd = "list_items" -> "list_items_callback"
      [] c.cmd = "low_stock" -> "low_stock"
      [] c.cmd = "export_csv" -> "export_csv"
      [] c.cmd = "history" -> "history"
      [] c.cmd = "update_item" -> "update_item_start"
      [] c.cmd = "set_min" -> "set_min_start"
      [] c.cmd = "warehouses_list" -> "warehouses_list"
      [] c.cmd = "warehouse_add" -> "warehouse_add_start"
      [] c.cmd = "warehouse_items" -> "warehouse_items_start"
      [] c.cmd = "warehouse_filter" -> "warehouse_filter"
      [] c.cmd = "update_field" ->
            (IF st = "UpdateItem:field" THEN "update_item_field_cb" ELSE "none")
      [] c.cmd = "admins_list" -> "admins_list"
      [] c.cmd = "admin_add" -> "admin_add_start"
      [] c.cmd = "admin_remove" -> "admin_remove_start"
      [] c.cmd = "backup_db" -> "backup_db"
      [] OTHER -> "none"

CbRouted(u, c, h) == is_admin(u) /\ CbRoute(StateOf(u), c) = h

\* ------------------------------------------------------- public_router
\* cmd_start, public_fallback: a message of a user IsAdmin rejected.
public_fallback(u, t) ==
    /\ ~is_admin(u)
    /\ Reply(u, IF t = "/start" THEN "cmd_start" ELSE "public_fallback", DENIED)
    /\ UNCHANGED <<tables, sessions>>

\* public_callback: a callback of a user IsAdmin rejected gets the alert; one
\* of an admin that no admin_router handler took is dropped silently.
public_callback(u, c) ==
    /\ ~is_admin(u) \/ CbRoute(StateOf(u), c) = "none"
    /\ Reply(u, "public_callback", IF is_admin(u) THEN "nothing" ELSE DENIED)
    /\ UNCHANGED <<tables, sessions>>

\* ---------------------------------------------- commands, menus, cancel
\* The handlers that only send a menu or a text.
MenuHandlers ==
    {"cmd_menu", "cmd_admin", "cmd_id", "cmd_help", "menu_warehouse", "menu_reports",
     "menu_admin", "menu_settings", "menu_warehouses", "search_menu"}

menu_message(u, t) ==
    /\ is_admin(u)
    /\ MsgRoute(StateOf(u), t) \in MenuHandlers
    /\ Reply(u, MsgRoute(StateOf(u), t), "menu")
    /\ UNCHANGED <<tables, sessions>>

MenuCallbacks == {"settings_menu_cb", "warehouses_menu_cb", "back_to_main"}

menu_callback(u, c) ==
    /\ is_admin(u)
    /\ CbRoute(StateOf(u), c) \in MenuCallbacks
    /\ Reply(u, CbRoute(StateOf(u), c), "menu")
    /\ UNCHANGED <<tables, sessions>>

cmd_cancel(u, t) ==
    /\ Routed(u, t, "cmd_cancel")
    /\ sessions' = [sessions EXCEPT ![u] = Cleared]
    /\ Reply(u, "cmd_cancel", "cancelled")
    /\ UNCHANGED tables

cancel_any_state(u, t) ==
    /\ Routed(u, t, "cancel_any_state")
    /\ IF StateOf(u) = NoneVal
       THEN Reply(u, "cancel_any_state", "nothing") /\ UNCHANGED sessions
       ELSE /\ sessions' = [sessions EXCEPT ![u] = Cleared]
            /\ Reply(u, "cancel_any_state", "cancelled")
    /\ UNCHANGED tables

admin_unknown(u, t) ==
    /\ Routed(u, t, "admin_unknown")
    /\ Reply(u, "admin_unknown", "use_menu")
    /\ UNCHANGED <<tables, sessions>>

\* ---------------------------------------------------------- flow starts
\* state.set_state(first step): the data of the session is kept.
StartFlow(u, h, st) ==
    /\ SetSession(u, st, DataOf(u))
    /\ Reply(u, h, "prompt")
    /\ UNCHANGED tables

bulk_add_start(u, t) == Routed(u, t, "bulk_add_start") /\ StartFlow(u, "bulk_add_start", "BulkAdd:lines")

add_item_start(u, t) == Routed(u, t, "add_item_start") /\ StartFlow(u, "add_item_start", "AddItem:sku")

adjust_qty_start(u, t) == Routed(u, t, "adjust_qty_start") /\ StartFlow(u, "adjust_qty_start", "AdjustItem:key")

set_qty_start(u, t) == Routed(u, t, "set_qty_start") /\ StartFlow(u, "set_qty_start", "SetQty:key")

delete_item_start(u, t) == Routed(u, t, "delete_item_start") /\ StartFlow(u, "delete_item_start", "DeleteItem:key")

\* The callbacks that start a flow the same way (the same handlers, and
\* search_start_cb, update_item_start, warehouse_add_start).
FlowOfCallback(h) ==
    CASE h = "bulk_add_start" -> "BulkAdd:lines"
      [] h = "add_item_start" -> "AddItem:sku"
      [] h = "adjust_qty_start" -> "AdjustItem:key"
      [] h = "set_qty_start" -> "SetQty:key"
      [] h = "delete_item_start" -> "DeleteItem:key"
      [] h = "search_start_cb" -> "SearchItem:query"
      [] h = "update_item_start" -> "UpdateItem:key"
      [] h = "warehouse_add_start" -> "AddWarehouse:name"

StartCallbacks ==
    {"bulk_add_start", "add_item_start", "adjust_qty_start", "set_qty_start",
     "delete_item_start", "search_start_cb", "update_item_start", "warehouse_add_start"}

start_callback(u, c) ==
    /\ is_admin(u)
    /\ CbRoute(StateOf(u), c) \in StartCallbacks
    /\ StartFlow(u, CbRoute(StateOf(u), c), FlowOfCallback(CbRoute(StateOf(u), c)))

\* set_min_start: clear, then preset_field, then the key step.
set_min_start(u, c) ==
    /\ CbRouted(u, c, "set_min_start")
    /\ SetSession(u, "UpdateItem:key", Put(EmptyData, "preset_field", "min_qty"))
    /\ Reply(u, "set_min_start", "prompt")
    /\ UNCHANGED tables

\* ---------------------------------------------------------------- AddItem
add_item_sku(u, t) ==
    /\ Routed(u, t, "add_item_sku")
    /\ LET sku == Strip(t) IN
       IF sku = ""
       THEN Reply(u, "add_item_sku", "sku_empty") /\ UNCHANGED sessions
       ELSE IF get_item_by_sku(sku) # {}
       THEN Reply(u, "add_item_sku", "sku_exists") /\ UNCHANGED sessions
       ELSE /\ SetSession(u, "AddItem:name", Put(DataOf(u), "sku", sku))
            /\ Reply(u, "add_item_sku", "prompt")
    /\ UNCHANGED tables

add_item_name(u, t) ==
    /\ Routed(u, t, "add_item_name")
    /\ LET name == Strip(t) IN
       IF name = ""
       THEN Reply(u, "add_item_name", "name_empty") /\ UNCHANGED sessions
       ELSE /\ SetSession(u, "AddItem:qty", Put(DataOf(u), "name", name))
            /\ Reply(u, "add_item_name", "prompt")
    /\ UNCHANGED tables

\* The prefill that goes on to the unit step.
add_item_prefill_advances(u, c) ==
    /\ CbRouted(u, c, "add_item_prefill")
    /\ SetSession(u, "AddItem:unit", DataOf(u))
    /\ Reply(u, "add_item_prefill", "prefill_applied")
    /\ UNCHANGED tables

\* add_item_prefill: no state filter; "skip" or the id of the template item.
add_item_prefill(u, c) ==
    /\ CbRouted(u, c, "add_item_prefill")
    /\ IF c.arg = "skip"
       THEN Reply(u, "add_item_prefill", "prefill_skipped") /\ UNCHANGED sessions
       ELSE IF get_item_by_id(ToInt(c.arg)) = {}
       THEN Reply(u, "add_item_prefill", "prefill_not_found") /\ UNCHANGED sessions
       ELSE \E item \in get_item_by_id(ToInt(c.arg)) :
            /\ SetSession(u, StateOf(u),
                 Put(Put(Put(Put(DataOf(u), "unit", item.unit), "location", item.location),
                         "min_qty", item.min_qty), "warehouse", item.warehouse))
            /\ Reply(u, "add_item_prefill", "prefill_applied")
    /\ UNCHANGED tables

add_item_qty(u, t) ==
    /\ Routed(u, t, "add_item_qty")
    /\ LET qty == parse_number(t) IN
       IF qty = <<>>
       THEN Reply(u, "add_item_qty", "need_number") /\ UNCHANGED sessions
       ELSE /\ SetSession(u, "AddItem:unit", Put(DataOf(u), "qty", qty[1]))
            /\ Reply(u, "add_item_qty", "prompt")
    /\ UNCHANGED tables

\* Python truth of data.get(k) for a text value: neither None nor "".
Truthy(d, k) == Get(d, k) # NoneVal /\ Get(d, k) # ""

add_item_unit(u, t) ==
    /\ Routed(u, t, "add_item_unit")
    /\ LET raw == Strip(t)
           unit == IF raw = "-" /\ Truthy(DataOf(u), "unit") THEN DataOf(u)["unit"]
                   ELSE IF raw = "-" \/ raw = "" THEN DEFAULT_UNIT
                   ELSE raw
       IN /\ SetSession(u, "AddItem:location", Put(DataOf(u), "unit", unit))
          /\ Reply(u, "add_item_unit", "prompt")
    /\ UNCHANGED tables

\* The location step that goes on to the minimum, past the warehouse.
add_item_location_skips(u, t) ==
    /\ Routed(u, t, "add_item_location")
    /\ SetSession(u, "AddItem:min_qty", Put(DataOf(u), "location", NoneVal))
    /\ Reply(u, "add_item_location", "prompt")
    /\ UNCHANGED tables

add_item_location(u, t) ==
    /\ Routed(u, t, "add_item_location")
    /\ LET raw == Strip(t)
           location == IF raw = "-" /\ Get(DataOf(u), "location") # NoneVal
                       THEN DataOf(u)["location"]
                       ELSE IF raw = "-" THEN NoneVal
                       ELSE raw
       IN /\ SetSession(u, "AddItem:warehouse", Put(DataOf(u), "location", location))
          /\ Reply(u, "add_item_location", "prompt")
    /\ UNCHANGED tables

\* add_item_warehouse_select: "warehouse_select:<id>", "0" or "" is "skip".
add_item_warehouse_select(u, c) ==
    /\ CbRouted(u, c, "add_item_warehouse_select")
    /\ IF c.arg = "" \/ c.arg = "0"
       THEN /\ SetSession(u, "AddItem:min_qty",
                 IF Get(DataOf(u), "warehouse") = NoneVal
                 THEN Put(DataOf(u), "warehouse", NoneVal) ELSE DataOf(u))
            /\ Reply(u, "add_item_warehouse_select", "prompt")
       ELSE IF get_warehouse_by_id(ToInt(c.arg)) = {}
       THEN Reply(u, "add_item_warehouse_select", "warehouse_not_found") /\ UNCHANGED sessions
       ELSE \E wh \in get_warehouse_by_id(ToInt(c.arg)) :
            /\ SetSession(u, "AddItem:min_qty", Put(DataOf(u), "warehouse", wh.name))
            /\ Reply(u, "add_item_warehouse_select", "prompt")
    /\ UNCHANGED tables

\* add_item_min: the commit step.  db.add_item, then state.clear().
add_item_min(u, t) ==
    /\ Routed(u, t, "add_item_min")
    /\ LET data == DataOf(u)
           min_qty == IF Strip(t) = "-" /\ Has(data, "min_qty")
                      THEN <<data["min_qty"]>> ELSE parse_number(t)
       IN
       IF min_qty = <<>>
       THEN Reply(u, "add_item_min", "need_number") /\ UNCHANGED <<sessions, tables>>
       ELSE IF add_item_ok(items, data["sku"], data["qty"], min_qty[1])
       THEN /\ items' = items \cup
                 {ItemRow(nextItemId, data["sku"], data["name"], data["qty"], data["unit"],
                          Get(data, "location"), Get(data, "warehouse"), min_qty[1])}
            /\ nextItemId' = nextItemId + 1
            /\ sessions' = [sessions EXCEPT ![u] = Cleared]
            /\ Reply(u, "add_item_min", "item_added")
            /\ UNCHANGED <<admins, warehouses, nextWhId, movements, nextMoveId>>
       ELSE /\ sessions' = [sessions EXCEPT ![u] = Cleared]
            /\ Reply(u, "add_item_min", "add_failed")
            /\ UNCHANGED tables

\* ------------------------------------------------ AdjustItem and SetQty
\* adjust_qty_key / set_qty_key / delete_item_key / update_item_key resolve
\* the key the same way; KeyStep is the part adjust_qty_key and set_qty_key share.
KeyStep(u, t, h, next) ==
    /\ Routed(u, t, h)
    /\ IF get_item_by_key(t) = {}
       THEN Reply(u, h, "item_not_found") /\ UNCHANGED sessions
       ELSE \E item \in get_item_by_key(t) :
            /\ SetSession(u, next,
                 Put(Put(DataOf(u), "item_id", item.id), "current_qty", item.qty))
            /\ Reply(u, h, "prompt")
    /\ UNCHANGED tables

adjust_qty_key(u, t) == KeyStep(u, t, "adjust_qty_key", "AdjustItem:delta")

set_qty_key(u, t) == KeyStep(u, t, "set_qty_key", "SetQty:qty")

\* adjust_qty_delta / set_qty_value: parse_number, then the note step.
NumberStep(u, t, h, key, next) ==
    /\ Routed(u, t, h)
    /\ LET n == parse_number(t) IN
       IF n = <<>>
       THEN Reply(u, h, "need_number") /\ UNCHANGED sessions
       ELSE /\ SetSession(u, next, Put(DataOf(u), key, n[1]))
            /\ Reply(u, h, "prompt")
    /\ UNCHANGED tables

adjust_qty_delta(u, t) == NumberStep(u, t, "adjust_qty_delta", "delta", "AdjustItem:note")

set_qty_value(u, t) == NumberStep(u, t, "set_qty_value", "qty", "SetQty:note")

\* The note of a movement: "-" is None.
NoteOf(t) == IF Strip(t) = "-" THEN NoneVal ELSE Strip(t)

\* The delta computed from the quantity the item has at the commit.
set_qty_delta_at_commit(data) ==
    IF get_item_by_id(data["item_id"]) = {} THEN 0
    ELSE FloatSub(data["qty"], (CHOOSE i \in items : i.id = data["item_id"]).qty)

\* The delta set_qty_note records: data["qty"] - data["current_qty"].
set_qty_delta(data) == FloatSub(data["qty"], data["current_qty"])

\* The commit of both flows: the quantity write, then db.add_movement, then
\* state.clear().  When the item is gone the UPDATE changes no row and the
\* INSERT into movements violates the foreign key; when the number is NaN the
\* UPDATE violates NOT NULL: IntegrityError leaves the handler before
\* state.clear().
QtyCommit(u, t, h, newItems, delta) ==
    /\ Routed(u, t, h)
    /\ IF get_item_by_id(DataOf(u)["item_id"]) = {} \/ delta = NaN
       THEN Reply(u, h, UNHANDLED) /\ UNCHANGED <<sessions, tables>>
       ELSE /\ items' = newItems
            /\ movements' = Append(movements,
                                    MoveRow(nextMoveId, DataOf(u)["item_id"], delta, NoteOf(t), u))
            /\ nextMoveId' = nextMoveId + 1
            /\ sessions' = [sessions EXCEPT ![u] = Cleared]
            /\ Reply(u, h, "qty_updated")
            /\ UNCHANGED <<admins, nextItemId, warehouses, nextWhId>>

adjust_qty_note(u, t) ==
    QtyCommit(u, t, "adjust_qty_note",
              adjust_item_qty(items, DataOf(u)["item_id"], DataOf(u)["delta"]),
              DataOf(u)["delta"])

set_qty_note(u, t) ==
    QtyCommit(u, t, "set_qty_note",
              update_item_qty(items, DataOf(u)["item_id"], DataOf(u)["qty"]),
              set_qty_delta(DataOf(u)))

\* ------------------------------------------------------------- DeleteItem
delete_item_key(u, t) ==
    /\ Routed(u, t, "delete_item_key")
    /\ IF get_item_by_key(t) = {}
       THEN Reply(u, "delete_item_key", "item_not_found") /\ UNCHANGED sessions
       ELSE \E item \in get_item_by_key(t) :
            /\ SetSession(u, "DeleteItem:confirm", Put(DataOf(u), "item_id", item.id))
            /\ Reply(u, "delete_item_key", "prompt")
    /\ UNCHANGED tables

\* str.lower() on the texts of the model.
PyLower(t) ==
    CASE t = "DA" -> "da"
      [] t = "A"  -> "a"
      [] t = "SKU" -> "sku"
      [] OTHER    -> t

\* The confirm step that deletes whatever the answer is.
delete_item_confirm_any(u, t) ==
    /\ Routed(u, t, "delete_item_confirm")
    /\ sessions' = [sessions EXCEPT ![u] = Cleared]
    /\ items' = delete_item_rows(DataOf(u)["item_id"])
    /\ movements' = delete_item_moves(DataOf(u)["item_id"])
    /\ Reply(u, "delete_item_confirm", "item_deleted")
    /\ UNCHANGED <<admins, nextItemId, warehouses, nextWhId, nextMoveId>>

delete_item_confirm(u, t) ==
    /\ Routed(u, t, "delete_item_confirm")
    /\ sessions' = [sessions EXCEPT ![u] = Cleared]
    /\ IF PyLower(Strip(t)) # CONFIRM_WORD
       THEN Reply(u, "delete_item_confirm", "delete_cancelled") /\ UNCHANGED tables
       ELSE /\ items' = delete_item_rows(DataOf(u)["item_id"])
            /\ movements' = delete_item_moves(DataOf(u)["item_id"])
            /\ Reply(u, "delete_item_confirm",
                     IF get_item_by_id(DataOf(u)["item_id"]) # {} THEN "item_deleted"
                     ELSE "delete_failed")
            /\ UNCHANGED <<admins, nextItemId, warehouses, nextWhId, nextMoveId>>

\* ------------------------------------------------------------- SearchItem
search_run(u, t) ==
    /\ Routed(u, t, "search_run")
    /\ sessions' = [sessions EXCEPT ![u] = Cleared]
    /\ Reply(u, "search_run", "search_result")
    /\ UNCHANGED tables

\* ------------------------------------------------------------- UpdateItem
update_item_key(u, t) ==
    /\ Routed(u, t, "update_item_key")
    /\ IF get_item_by_key(t) = {}
       THEN Reply(u, "update_item_key", "item_not_found") /\ UNCHANGED sessions
       ELSE \E item \in get_item_by_key(t) :
            LET d == Put(DataOf(u), "item_id", item.id) IN
            /\ IF Truthy(DataOf(u), "preset_field")
               THEN SetSession(u, "UpdateItem:value", Put(d, "field", DataOf(u)["preset_field"]))
               ELSE SetSession(u, "UpdateItem:field", d)
            /\ Reply(u, "update_item_key", "prompt")
    /\ UNCHANGED tables

UpdateFields == {"name", "sku", "unit", "location", "warehouse", "min_qty"}

update_item_field(u, t) ==
    /\ Routed(u, t, "update_item_field")
    /\ IF PyLower(Strip(t)) \notin UpdateFields
       THEN Reply(u, "update_item_field", "bad_field") /\ UNCHANGED sessions
       ELSE /\ SetSession(u, "UpdateItem:value", Put(DataOf(u), "field", PyLower(Strip(t))))
            /\ Reply(u, "update_item_field", "prompt")
    /\ UNCHANGED tables

update_item_field_cb(u, c) ==
    /\ CbRouted(u, c, "update_item_field_cb")
    /\ IF c.arg \notin UpdateFields
       THEN Reply(u, "update_item_field_cb", "bad_field") /\ UNCHANGED sessions
       ELSE /\ SetSession(u, "UpdateItem:value", Put(DataOf(u), "field", c.arg))
            /\ Reply(u, "update_item_field_cb", "prompt")
    /\ UNCHANGED tables

\* update_item_value: the commit step.  After a successful UPDATE the item is
\* read again; format_item_card(None) raises when the item is gone.
update_item_value(u, t) ==
    /\ Routed(u, t, "update_item_value")
    /\ LET data == DataOf(u)
           field == data["field"]
           raw == Strip(t)
           num == parse_number(raw)
           value == IF field = "min_qty" THEN num[1]
                    ELSE IF field \in {"location", "warehouse"} /\ raw = "-" THEN NoneVal
                    ELSE raw
       IN
       IF field = "min_qty" /\ num = <<>>
       THEN Reply(u, "update_item_value", "need_number") /\ UNCHANGED <<sessions, tables>>
       ELSE IF field # "min_qty" /\ ~(field \in {"location", "warehouse"} /\ raw = "-") /\ raw = ""
       THEN Reply(u, "update_item_value", "value_empty") /\ UNCHANGED <<sessions, tables>>
       ELSE /\ sessions' = [sessions EXCEPT ![u] = Cleared]
            /\ IF ~update_item_fields_ok(data["item_id"], field, value)
               THEN Reply(u, "update_item_value", "update_failed") /\ UNCHANGED tables
               ELSE /\ items' = update_item_fields(data["item_id"], field, value)
                    /\ Reply(u, "update_item_value",
                             IF get_item_by_id(data["item_id"]) = {} THEN UNHANDLED
                             ELSE "item_updated")
                    /\ UNCHANGED <<admins, nextItemId, warehouses, nextWhId, movements, nextMoveId>>

\* ----------------------------------------------------------- AddWarehouse
warehouse_add_name(u, t) ==
    /\ Routed(u, t, "warehouse_add_name")
    /\ LET name == Strip(t) IN
       IF name = ""
       THEN Reply(u, "warehouse_add_name", "name_empty") /\ UNCHANGED <<sessions, tables>>
       ELSE /\ sessions' = [sessions EXCEPT ![u] = Cleared]
            /\ IF add_warehouse_ok(warehouses, name)
               THEN /\ warehouses' = warehouses \cup {WhRow(nextWhId, name)}
                    /\ nextWhId' = nextWhId + 1
                    /\ Reply(u, "warehouse_add_name", "warehouse_added")
                    /\ UNCHANGED <<admins, items, nextItemId, movements, nextMoveId>>
               ELSE Reply(u, "warehouse_add_name", "warehouse_exists") /\ UNCHANGED tables

\* ------------------------------------------------ AddAdmin and RemoveAdmin
\* The admins table is modelled by its tg_id column; name and added_at are
\* only listed.
admin_start(u, c, h, st) ==
    /\ CbRouted(u, c, h)
    /\ IF ~is_super_admin(u)
       THEN Reply(u, h, "no_rights") /\ UNCHANGED sessions
       ELSE SetSession(u, st, DataOf(u)) /\ Reply(u, h, "prompt")
    /\ UNCHANGED tables

admin_add_start(u, c) == admin_start(u, c, "admin_add_start", "AddAdmin:tg_id")

admin_remove_start(u, c) == admin_start(u, c, "admin_remove_start", "RemoveAdmin:tg_id")

admin_add_tg_id(u, t) ==
    /\ Routed(u, t, "admin_add_tg_id")
    /\ IF ~is_super_admin(u)
       THEN sessions' = [sessions EXCEPT ![u] = Cleared] /\ Reply(u, "admin_add_tg_id", "no_rights")
       ELSE IF ~IsDigit(Strip(t))
       THEN Reply(u, "admin_add_tg_id", "need_id") /\ UNCHANGED sessions
       ELSE /\ SetSession(u, "AddAdmin:name", Put(DataOf(u), "tg_id", ToInt(Strip(t))))
            /\ Reply(u, "admin_add_tg_id", "prompt")
    /\ UNCHANGED tables

admin_add_name(u, t) ==
    /\ Routed(u, t, "admin_add_name")
    /\ sessions' = [sessions EXCEPT ![u] = Cleared]
    /\ IF ~is_super_admin(u)
       THEN Reply(u, "admin_add_name", "no_rights") /\ UNCHANGED tables
       ELSE /\ admins' = admins \cup {DataOf(u)["tg_id"]}
            /\ Reply(u, "admin_add_name",
                     IF DataOf(u)["tg_id"] \in admins THEN "admin_exists" ELSE "admin_added")
            /\ UNCHANGED <<items, nextItemId, warehouses, nextWhId, movements, nextMoveId>>

admin_remove_tg_id(u, t) ==
    /\ Routed(u, t, "admin_remove_tg_id")
    /\ IF ~is_super_admin(u)
       THEN /\ sessions' = [sessions EXCEPT ![u] = Cleared]
            /\ Reply(u, "admin_remove_tg_id", "no_rights")
            /\ UNCHANGED tables
       ELSE IF ~IsDigit(Strip(t))
       THEN Reply(u, "admin_remove_tg_id", "need_id") /\ UNCHANGED <<sessions, tables>>
       ELSE /\ admins' = admins \ {ToInt(Strip(t))}
            /\ sessions' = [sessions EXCEPT ![u] = Cleared]
            /\ Reply(u, "admin_remove_tg_id",
                     IF ToInt(Strip(t)) \in admins THEN "admin_removed" ELSE "admin_not_found")
            /\ UNCHANGED <<items, nextItemId, warehouses, nextWhId, movements, nextMoveId>>

\* ------------------------------------------------------------------ lists
\* total // PAGE_SIZE
CeilPages_floor(total) == total \div PAGE_SIZE

\* math.ceil(total / PAGE_SIZE)
CeilPages(total) ==
    IF total % PAGE_SIZE = 0 THEN total \div PAGE_SIZE ELSE (total \div PAGE_SIZE) + 1

\* total_pages = max(1, math.ceil(total / PAGE_SIZE))
TotalPages(total) == IF CeilPages(total) < 1 THEN 1 ELSE CeilPages(total)

\* The page asked for, taken as it is.
ClampPage_unclamped(page, total_pages) == page

\* page = max(1, min(page, total_pages))
ClampPage(page, total_pages) ==
    IF page > total_pages THEN total_pages ELSE IF page < 1 THEN 1 ELSE page

\* The number of rows LIMIT PAGE_SIZE OFFSET (page - 1) * PAGE_SIZE returns.
RowsOnPage(total, page) ==
    LET left == total - (page - 1) * PAGE_SIZE IN
    IF left <= 0 THEN 0 ELSE IF left > PAGE_SIZE THEN PAGE_SIZE ELSE left

\* render_items_page / render_items_by_warehouse over a collection of total
\* rows, with the page handed to the keyboard.
PageEvent(u, h, total, page, kb_page) ==
    LET shown == ClampPage(page, TotalPages(total)) IN
    [Event(u, h, IF RowsOnPage(total, shown) = 0 THEN "no_items" ELSE "items_page")
       EXCEPT !.page = shown, !.pages = TotalPages(total), !.kb_page = kb_page]

list_items_message(u, t) ==
    /\ Routed(u, t, "list_items_message")
    /\ last' = PageEvent(u, "list_items_message", count_items, 1, 1)
    /\ UNCHANGED <<tables, sessions>>

\* list_items_callback: "list_items:<page>"; pagination_kb gets the page asked for.
list_items_callback(u, c) ==
    /\ CbRouted(u, c, "list_items_callback")
    /\ last' = PageEvent(u, "list_items_callback", count_items, c.page, c.page)
    /\ UNCHANGED <<tables, sessions>>

\* warehouse_filter: "warehouse_filter:<warehouse id>:<sort>:<page>", id 0 is all.
warehouse_filter(u, c) ==
    /\ CbRouted(u, c, "warehouse_filter")
    /\ IF c.arg # "0" /\ get_warehouse_by_id(ToInt(c.arg)) = {}
       THEN Reply(u, "warehouse_filter", "warehouse_not_found")
       ELSE \E wname \in (IF c.arg = "0" THEN {NoneVal}
                          ELSE {w.name : w \in get_warehouse_by_id(ToInt(c.arg))}) :
            last' = PageEvent(u, "warehouse_filter", count_items_by_warehouse(wname),
                              c.page, c.page)
    /\ UNCHANGED <<tables, sessions>>

\* The handlers that only read and report: low_stock, export_csv, history,
\* warehouses_list, warehouse_items_start, admins_list, backup_db.
ReportHandlers ==
    {"low_stock", "export_csv", "history", "warehouses_list", "warehouse_items_start",
     "admins_list", "backup_db"}

report_message(u, t) ==
    /\ is_admin(u)
    /\ MsgRoute(StateOf(u), t) \in ReportHandlers
    /\ Reply(u, MsgRoute(StateOf(u), t), "report")
    /\ UNCHANGED <<tables, sessions>>

report_callback(u, c) ==
    /\ is_admin(u)
    /\ CbRoute(StateOf(u), c) \in ReportHandlers
    /\ Reply(u, CbRoute(StateOf(u), c), "report")
    /\ UNCHANGED <<tables, sessions>>

\* ---------------------------------------------------------------- BulkAdd
\* A message text is a sequence of lines; a line is the sequence of cells
\* csv.reader splits it into, and <<>> is a blank line.
\* parse_bulk_lines: blank lines are dropped.
parse_bulk_lines(lines) == SelectSeq(lines, LAMBDA l : l # <<>>)

\* row[n].strip() if len(row) > n else dflt   (n counted from 1 here)
Cell(row, n, dflt) == IF Len(row) >= n THEN Strip(row[n]) ELSE dflt

\* What the loop of bulk_add_process carries from row to row.
BulkStart ==
    [items |-> items, nextItemId |-> nextItemId, warehouses |-> warehouses,
     nextWhId |-> nextWhId, created |-> 0, skipped |-> 0, errors |-> <<>>]

BulkError(S, idx, kind) == [S EXCEPT !.errors = Append(@, <<idx, kind>>)]

\* if warehouse: get_warehouse_by_name, else add_warehouse (before add_item).
BulkWarehouse(S, warehouse) ==
    IF warehouse # "" /\ get_warehouse_by_name(S.warehouses, warehouse) = {}
       /\ add_warehouse_ok(S.warehouses, warehouse)
    THEN [S EXCEPT !.warehouses = @ \cup {WhRow(S.nextWhId, warehouse)},
                   !.nextWhId = @ + 1]
    ELSE S

\* The greatest id of the table, 0 for the empty table.
MaxId(its) == IF its = {} THEN 0 ELSE CHOOSE m \in {i.id : i \in its} : \A i \in its : i.id <= m

\* The insert with an id that is one more than the greatest id of the table
\* (INTEGER PRIMARY KEY without AUTOINCREMENT).
BulkInsert_rowid(S, idx, sku, name, qty, unit, location, warehouse, min_qty) ==
    IF add_item_ok(S.items, sku, qty, min_qty)
    THEN [S EXCEPT !.items = @ \cup {ItemRow(MaxId(S.items) + 1, sku, name, qty, unit,
                                              location, warehouse, min_qty)},
                   !.nextItemId = @ + 1,
                   !.created = @ + 1]
    ELSE [BulkError(S, idx, "sku_exists") EXCEPT !.skipped = @ + 1]

\* db.add_item of one row and the counting of its result.
BulkInsert(S, idx, sku, name, qty, unit, location, warehouse, min_qty) ==
    IF add_item_ok(S.items, sku, qty, min_qty)
    THEN [S EXCEPT !.items = @ \cup {ItemRow(S.nextItemId, sku, name, qty, unit,
                                              location, warehouse, min_qty)},
                   !.nextItemId = @ + 1,
                   !.created = @ + 1]
    ELSE [BulkError(S, idx, "sku_exists") EXCEPT !.skipped = @ + 1]

\* One pass of the loop body for row number idx.
BulkRow(S, row, idx) ==
    LET sku == Cell(row, 1, "")
        name == Cell(row, 2, "")
        qty_raw == Cell(row, 3, "")
        unit == IF Cell(row, 4, "") # "" THEN Cell(row, 4, "") ELSE DEFAULT_UNIT
        location == Cell(row, 5, "")
        warehouse == Cell(row, 6, "")
        min_qty_raw == Cell(row, 7, "0")
    IN
    IF sku = "" \/ name = "" \/ qty_raw = "" THEN BulkError(S, idx, "need_fields")
    ELSE IF parse_number(qty_raw) = <<>> THEN BulkError(S, idx, "bad_qty")
    ELSE IF parse_number(min_qty_raw) = <<>> THEN BulkError(S, idx, "bad_min_qty")
    ELSE BulkInsert(BulkWarehouse(S, warehouse), idx, sku, name, parse_number(qty_raw)[1],
                    unit, IF location = "" THEN NoneVal ELSE location,
                    IF warehouse = "" THEN NoneVal ELSE warehouse,
                    parse_number(min_qty_raw)[1])

\* The loop leaving at the first row that is not created (return for continue).
RECURSIVE BulkLoop_stops(_, _, _)
BulkLoop_stops(S, rows, idx) ==
    IF idx > Len(rows) THEN S
    ELSE IF Len(BulkRow(S, rows[idx], idx).errors) > Len(S.errors)
    THEN BulkRow(S, rows[idx], idx)
    ELSE BulkLoop_stops(BulkRow(S, rows[idx], idx), rows, idx + 1)

\* for idx, row in enumerate(rows, start=1)
RECURSIVE BulkLoop(_, _, _)
BulkLoop(S, rows, idx) ==
    IF idx > Len(rows) THEN S ELSE BulkLoop(BulkRow(S, rows[idx], idx), rows, idx + 1)

bulk_add_process(u, lines) ==
    /\ is_admin(u)
    /\ StateOf(u) = "BulkAdd:lines"
    /\ LET rows == parse_bulk_lines(lines)
           S == BulkLoop(BulkStart, rows, 1)
       IN
       IF rows = <<>>
       THEN Reply(u, "bulk_add_process", "list_empty") /\ UNCHANGED <<sessions, tables>>
       ELSE /\ items' = S.items
            /\ nextItemId' = S.nextItemId
            /\ warehouses' = S.warehouses
            /\ nextWhId' = S.nextWhId
            /\ sessions' = [sessions EXCEPT ![u] = Cleared]
            /\ last' = [Event(u, "bulk_add_process", "bulk_done")
                          EXCEPT !.lines = lines, !.created = S.created,
                                 !.skipped = S.skipped, !.errors = S.errors]
            /\ UNCHANGED <<admins, movements, nextMoveId>>

\* ------------------------------------------------------ the whole program
\* After main(): db.init() and ensure_admins(config.super_admins); user 2 is
\* an admin added earlier, user 3 is nobody.  The store is empty.
Init ==
    /\ admins = super_admins \cup {2}
    /\ items = {}
    /\ nextItemId = 1
    /\ warehouses = {}
    /\ nextWhId = 1
    /\ movements = <<>>
    /\ nextMoveId = 1
    /\ sessions = [u \in Users |-> Cleared]
    /\ last = Event(0, "none", "none")

\* ------------------------------------------------------- the environment
\* Spec: every dialogue of the program, one open at a time.  A dialogue is
\* started by an admin with none open while nobody else has one open (the
\* admin flows of a super-admin excepted, so that an admin can lose the
\* rights in the middle of a dialogue).  In a dialogue the user sends a
\* cancel word or an answer to the current step.  A user who is no admin
\* sends texts and presses buttons of earlier messages.
Busy(u) == StateOf(u) # NoneVal

OthersIdle(u) == \A v \in Users \ {u} : ~Busy(v)

StartTexts == {BTN_ADD_ITEM, BTN_BULK_ADD, BTN_ADJUST_QTY, BTN_SET_QTY, BTN_DELETE_ITEM}

OutsiderTexts == {"/start", "/cancel", BTN_ADD_ITEM, "a"}

Answers(st) ==
    CASE st = "AddItem:sku" -> {"a"}
      [] st = "AddItem:name" -> {"w"}
      [] st = "AddItem:qty" -> {"1"}
      [] st = "AddItem:unit" -> {"-"}
      [] st = "AddItem:location" -> {"-"}
      [] st = "AddItem:warehouse" -> {"w"}
      [] st = "AddItem:min_qty" -> {"x", "0"}
      [] st \in {"AdjustItem:key", "SetQty:key", "DeleteItem:key", "UpdateItem:key"} -> {"a", "zz"}
      [] st = "AdjustItem:delta" -> {"+1"}
      [] st = "SetQty:qty" -> {"2"}
      [] st \in {"AdjustItem:note", "SetQty:note"} -> {"-"}
      [] st = "DeleteItem:confirm" -> {"da", "no"}
      [] st = "SearchItem:query" -> {"a"}
      [] st = "AddWarehouse:name" -> {"W1"}
      [] st = "UpdateItem:field" -> {"sku"}
      [] st = "UpdateItem:value" -> {"b"}
      [] st = "AddAdmin:tg_id" -> {"2"}
      [] st = "AddAdmin:name" -> {"-"}
      [] st = "RemoveAdmin:tg_id" -> {"2"}
      [] OTHER -> {}

Texts(u) ==
    IF ~is_admin(u) THEN OutsiderTexts
    ELSE IF Busy(u) THEN {"/cancel", "otmena"} \cup Answers(StateOf(u))
    ELSE IF OthersIdle(u) THEN StartTexts ELSE {}

StartCbs == {Cb("search", ""), Cb("update_item", ""), Cb("set_min", ""), Cb("warehouse_add", "")}

AdminCbs == {Cb("admin_add", ""), Cb("admin_remove", "")}

StepCbs(st) ==
    CASE st = "AddItem:qty" -> {Cb("prefill_item", "skip"), Cb("prefill_item", "1")}
      [] st = "AddItem:warehouse" -> {Cb("warehouse_select", "0"), Cb("warehouse_select", "1")}
      [] st = "UpdateItem:field" -> {Cb("update_field", "min_qty")}
      [] st = "UpdateItem:value" -> {Cb("update_field", "sku")}
      [] OTHER -> {}

OutsiderCbs == {Cb("add_item", ""), Cb("prefill_item", "1"), Cb("admin_add", "")}

Callbacks(u) ==
    IF ~is_admin(u) THEN OutsiderCbs
    ELSE IF Busy(u) THEN StepCbs(StateOf(u))
    ELSE AdminCbs \cup (IF OthersIdle(u) THEN StartCbs ELSE {})

\* The BulkAdd messages: no row, a row that is accepted, a row that is not.
Batches == { <<>>, << <<"a", "w", "1">> >>, << <<"b", "w">> >> }

\* The bound of Spec on the ids handed out and on the movements recorded.
DialogBound == nextItemId <= DialogItems + 1 /\ nextMoveId <= DialogMoves + 1

TextUniverse ==
    StartTexts \cup OutsiderTexts \cup {"/cancel", "otmena"}
    \cup UNION {Answers(st) : st \in
                 {"AddItem:sku", "AddItem:name", "AddItem:qty", "AddItem:unit",
                  "AddItem:location", "AddItem:warehouse", "AddItem:min_qty",
                  "AdjustItem:key", "AdjustItem:delta", "AdjustItem:note", "SetQty:qty",
                  "DeleteItem:confirm", "SearchItem:query", "AddWarehouse:name",
                  "UpdateItem:field", "UpdateItem:value", "AddAdmin:tg_id", "AddAdmin:name",
                  "RemoveAdmin:tg_id"}}

CbUniverse ==
    StartCbs \cup AdminCbs \cup OutsiderCbs
    \cup UNION {StepCbs(st) : st \in {"AddItem:qty", "AddItem:warehouse", "UpdateItem:field",
                                       "UpdateItem:value"}}

Sends(u, t) == t \in Texts(u)

Presses(u, c) == c \in Callbacks(u)

\* The message handlers that take part in a dialogue, and the denial.
DialogMessage(u, t) ==
    \/ Sends(u, t) /\ public_fallback(u, t)
    \/ Sends(u, t) /\ cmd_cancel(u, t)
    \/ Sends(u, t) /\ cancel_any_state(u, t)
    \/ Sends(u, t) /\ admin_unknown(u, t)
    \/ Sends(u, t) /\ bulk_add_start(u, t)
    \/ Sends(u, t) /\ add_item_start(u, t)
    \/ Sends(u, t) /\ adjust_qty_start(u, t)
    \/ Sends(u, t) /\ set_qty_start(u, t)
    \/ Sends(u, t) /\ delete_item_start(u, t)
    \/ Sends(u, t) /\ add_item_sku(u, t)
    \/ Sends(u, t) /\ add_item_name(u, t)
    \/ Sends(u, t) /\ add_item_qty(u, t)
    \/ Sends(u, t) /\ add_item_unit(u, t)
    \/ Sends(u, t) /\ add_item_location(u, t)
    \/ Sends(u, t) /\ add_item_min(u, t) /\ DialogBound'
    \/ Sends(u, t) /\ adjust_qty_key(u, t)
    \/ Sends(u, t) /\ adjust_qty_delta(u, t)
    \/ Sends(u, t) /\ adjust_qty_note(u, t) /\ DialogBound'
    \/ Sends(u, t) /\ set_qty_key(u, t)
    \/ Sends(u, t) /\ set_qty_value(u, t)
    \/ Sends(u, t) /\ set_qty_note(u, t) /\ DialogBound'
    \/ Sends(u, t) /\ delete_item_key(u, t)
    \/ Sends(u, t) /\ delete_item_confirm(u, t)
    \/ Sends(u, t) /\ search_run(u, t)
    \/ Sends(u, t) /\ warehouse_add_name(u, t)
    \/ Sends(u, t) /\ update_item_key(u, t)
    \/ Sends(u, t) /\ update_item_field(u, t)
    \/ Sends(u, t) /\ update_item_value(u, t)
    \/ Sends(u, t) /\ admin_add_tg_id(u, t)
    \/ Sends(u, t) /\ admin_add_name(u, t)
    \/ Sends(u, t) /\ admin_remove_tg_id(u, t)

\* The callback handlers that take part in a dialogue, and the denial.
DialogCallback(u, c) ==
    \/ Presses(u, c) /\ public_callback(u, c)
    \/ Presses(u, c) /\ start_callback(u, c)
    \/ Presses(u, c) /\ set_min_start(u, c)
    \/ Presses(u, c) /\ add_item_prefill(u, c)
    \/ Presses(u, c) /\ add_item_warehouse_select(u, c)
    \/ Presses(u, c) /\ update_item_field_cb(u, c)
    \/ Presses(u, c) /\ admin_add_start(u, c)
    \/ Presses(u, c) /\ admin_remove_start(u, c)

DialogBulk(u, lines) == bulk_add_process(u, lines) /\ DialogBound'

Next ==
    \E u \in Users :
        \/ \E t \in TextUniverse : DialogMessage(u, t)
        \/ \E c \in CbUniverse : DialogCallback(u, c)
        \/ \E lines \in Batches : DialogBulk(u, lines)

Spec == Init /\ [][Next]_vars

\* ------------------------------------------------------------ SpecSku
\* SpecSku: two admins add items in AddItem dialogues, change the sku of an
\* item in UpdateItem dialogues and send BulkAdd texts, at the same time,
\* with skus that differ in case only.
SkuItems == 2

SkuBound == nextItemId <= SkuItems + 1

SkuAnswers(st) ==
    CASE st = "AddItem:sku" -> {"a", "A"}
      [] st = "AddItem:name" -> {"w"}
      [] st = "AddItem:qty" -> {"1"}
      [] st = "AddItem:unit" -> {"-"}
      [] st = "AddItem:location" -> {"-"}
      [] st = "AddItem:min_qty" -> {"0"}
      [] st = "UpdateItem:key" -> {"1"}
      [] st = "UpdateItem:field" -> {"sku"}
      [] st = "UpdateItem:value" -> {"a", "A"}
      [] OTHER -> {}

SkuTexts == {BTN_ADD_ITEM, BTN_BULK_ADD, "a", "A", "w", "1", "-", "0", "sku"}

SkuSends(u, t) ==
    t \in (IF Busy(u) THEN SkuAnswers(StateOf(u)) ELSE {BTN_ADD_ITEM, BTN_BULK_ADD})

SkuCbs == {Cb("update_item", ""), Cb("warehouse_select", "0")}

SkuPresses(u, c) ==
    \/ ~Busy(u) /\ c = Cb("update_item", "") /\ items # {}
    \/ StateOf(u) = "AddItem:warehouse" /\ c = Cb("warehouse_select", "0")

SkuBatches ==
    { << <<"a", "w", "1">> >>, << <<"A", "w", "1">> >>,
      << <<"a", "w", "1">>, <<"A", "w", "1">> >> }

SkuMessage(u, t) ==
    \/ SkuSends(u, t) /\ add_item_start(u, t)
    \/ SkuSends(u, t) /\ bulk_add_start(u, t)
    \/ SkuSends(u, t) /\ add_item_sku(u, t)
    \/ SkuSends(u, t) /\ add_item_name(u, t)
    \/ SkuSends(u, t) /\ add_item_qty(u, t)
    \/ SkuSends(u, t) /\ add_item_unit(u, t)
    \/ SkuSends(u, t) /\ add_item_location(u, t)
    \/ SkuSends(u, t) /\ add_item_min(u, t) /\ SkuBound'
    \/ SkuSends(u, t) /\ update_item_key(u, t)
    \/ SkuSends(u, t) /\ update_item_field(u, t)
    \/ SkuSends(u, t) /\ update_item_value(u, t)

SkuCallback(u, c) ==
    \/ SkuPresses(u, c) /\ start_callback(u, c)
    \/ SkuPresses(u, c) /\ add_item_warehouse_select(u, c)

SkuBulk(u, lines) == bulk_add_process(u, lines) /\ SkuBound'

NextSku ==
    \E u \in Users :
        \/ \E t \in SkuTexts : SkuMessage(u, t)
        \/ \E c \in SkuCbs : SkuCallback(u, c)
        \/ \E lines \in SkuBatches : SkuBulk(u, lines)

SpecSku == Init /\ [][NextSku]_vars

\* C1: no two items have skus that are equal when compared without regard
\* to case.
C1_SkuUniqueIgnoringCase ==
    \A i, j \in items : i.id # j.id => SqlLower(i.sku) # SqlLower(j.sku)

\* ----------------------------------------------------------- SpecRace
\* SpecRace: the AddItem dialogues of SpecSku alone, so that an item can only
\* have been inserted by the commit step of such a dialogue.
RaceMessage(u, t) ==
    \/ SkuSends(u, t) /\ add_item_start(u, t)
    \/ SkuSends(u, t) /\ add_item_sku(u, t)
    \/ SkuSends(u, t) /\ add_item_name(u, t)
    \/ SkuSends(u, t) /\ add_item_qty(u, t)
    \/ SkuSends(u, t) /\ add_item_unit(u, t)
    \/ SkuSends(u, t) /\ add_item_location(u, t)
    \/ SkuSends(u, t) /\ add_item_min(u, t) /\ SkuBound'

RaceCallback(u, c) == SkuPresses(u, c) /\ add_item_warehouse_select(u, c)

NextRace ==
    \E u \in Users :
        \/ \E t \in SkuTexts : RaceMessage(u, t)
        \/ \E c \in SkuCbs : RaceCallback(u, c)

SpecRace == Init /\ [][NextRace]_vars

\* C5: when an AddItem dialogue reaches its commit step (add_item_min with a
\* number) there is exactly one item with the sku of the dialogue afterwards
\* (skus compared without regard to case, as the sku step compares them) and
\* the admin has no session; and when an item with that sku was there
\* already (another admin passed the sku step with the same sku and
\* committed first), the commit reports the failure and leaves every table
\* as it was.
C5_OneItemPerSku ==
    [][\A u \in Users : \A t \in SkuTexts :
        (StateOf(u) = "AddItem:min_qty" /\ RaceMessage(u, t)) =>
            LET sku == SqlLower(DataOf(u)["sku"]) IN
            /\ Cardinality({i \in items' : SqlLower(i.sku) = sku}) = 1
            /\ sessions'[u] = Cleared
            /\ (\E i \in items : SqlLower(i.sku) = sku) =>
                   (UNCHANGED tables /\ last'.reply = "add_failed")]_vars

\* The same for skus compared as the strings they are: the two admins typed
\* the sku in the same case.
C5_OneItemPerRace ==
    [][\A u \in Users : \A t \in SkuTexts :
        (StateOf(u) = "AddItem:min_qty" /\ RaceMessage(u, t)) =>
            LET sku == DataOf(u)["sku"] IN
            /\ Cardinality({i \in items' : i.sku = sku}) = 1
            /\ sessions'[u] = Cleared
            /\ (\E i \in items : i.sku = sku) =>
                   (UNCHANGED tables /\ last'.reply = "add_failed")]_vars

\* Two admins passed the sku step, one with a and one with A, and both
\* commits inserted an item.
C5_BothInserted ==
    /\ last.handler = "add_item_min"
    /\ last.reply = "item_added"
    /\ \E i, j \in items : i.sku = "a" /\ j.sku = "A"
    /\ sessions[last.user] = Cleared

\* Two admins passed the sku step with the same sku, one committed and the
\* commit of the other was refused.
C5_Witness ==
    /\ last.handler = "add_item_min"
    /\ last.reply = "add_failed"
    /\ \E i \in items : i.sku = "a"
    /\ sessions[last.user] = Cleared

\* ------------------------------------------------------------ SpecQty
\* SpecQty: the store holds one item, added earlier with quantity 2, and two
\* admins run AdjustItem, SetQty and DeleteItem dialogues on it at the same
\* time.  They adjust by +1 or -1 and set 0 or 0.3 (0.3 only in a dialogue
\* that read an integer up to 2, so that the difference is a number of the model).
QtyMoves == 2

InitQty ==
    /\ admins = super_admins \cup {2}
    /\ items = {ItemRow(1, "a", "w", 2, DEFAULT_UNIT, NoneVal, NoneVal, 0)}
    /\ nextItemId = 2
    /\ warehouses = {}
    /\ nextWhId = 1
    /\ movements = <<>>
    /\ nextMoveId = 1
    /\ sessions = [u \in Users |-> Cleared]
    /\ last = Event(0, "none", "none")

\* The movements recorded are bounded and every quantity is a number of the model.
QtyBound ==
    /\ nextMoveId <= QtyMoves + 1
    /\ \A i \in items : i.qty # Fraction
    /\ \A k \in 1..Len(movements) : movements[k].delta # Fraction

QtyAnswers(u, st) ==
    CASE st \in {"AdjustItem:key", "SetQty:key", "DeleteItem:key"} -> {"a"}
      [] st = "AdjustItem:delta" -> {"+1", "-1"}
      [] st = "SetQty:qty" ->
            IF DataOf(u)["current_qty"] \in -2..2 THEN {"0", "0.3"} ELSE {"0"}
      [] st \in {"AdjustItem:note", "SetQty:note"} -> {"-"}
      [] st = "DeleteItem:confirm" -> {"da"}
      [] OTHER -> {}

QtyTexts ==
    {BTN_ADJUST_QTY, BTN_SET_QTY, BTN_DELETE_ITEM, "a", "+1", "-1", "0", "0.3", "-", "da"}

QtySends(u, t) ==
    t \in (IF Busy(u) THEN QtyAnswers(u, StateOf(u))
           ELSE {BTN_ADJUST_QTY, BTN_SET_QTY, BTN_DELETE_ITEM})

QtyMessage(u, t) ==
    \/ QtySends(u, t) /\ adjust_qty_start(u, t)
    \/ QtySends(u, t) /\ adjust_qty_key(u, t)
    \/ QtySends(u, t) /\ adjust_qty_delta(u, t)
    \/ QtySends(u, t) /\ adjust_qty_note(u, t) /\ QtyBound'
    \/ QtySends(u, t) /\ set_qty_start(u, t)
    \/ QtySends(u, t) /\ set_qty_key(u, t)
    \/ QtySends(u, t) /\ set_qty_value(u, t)
    \/ QtySends(u, t) /\ set_qty_note(u, t) /\ QtyBound'
    \/ QtySends(u, t) /\ delete_item_start(u, t)
    \/ QtySends(u, t) /\ delete_item_key(u, t)
    \/ QtySends(u, t) /\ delete_item_confirm(u, t)

NextQty == \E u \in Users : \E t \in QtyTexts : QtyMessage(u, t)

SpecQty == InitQty /\ [][NextQty]_vars

InSetQty(st) == st \in {"SetQty:qty", "SetQty:note"}

\* C4: a SetQty dialogue keeps the quantity it read when the key was resolved
\* (set_qty_key stores the quantity the item has then, and the later steps do
\* not change it), and its commit step either appends exactly one movement,
\* for the item of the dialogue, whose delta is the new value minus that
\* quantity, or (the item is gone) fails and changes nothing.
C4_SetQtyDelta ==
    [][\A u \in Users : \A t \in QtyTexts : QtyMessage(u, t) =>
        /\ (StateOf(u) = "SetQty:key" /\ InSetQty(sessions'[u].state)) =>
               \E i \in items : /\ sessions'[u].data["item_id"] = i.id
                                /\ sessions'[u].data["current_qty"] = i.qty
        /\ (InSetQty(StateOf(u)) /\ InSetQty(sessions'[u].state)) =>
               /\ sessions'[u].data["item_id"] = DataOf(u)["item_id"]
               /\ sessions'[u].data["current_qty"] = DataOf(u)["current_qty"]
        /\ StateOf(u) = "SetQty:note" =>
               \/ /\ last'.reply = "qty_updated"
                  /\ Len(movements') = Len(movements) + 1
                  /\ SubSeq(movements', 1, Len(movements)) = movements
                  /\ movements'[Len(movements')].item_id = DataOf(u)["item_id"]
                  /\ movements'[Len(movements')].delta =
                         FloatSub(DataOf(u)["qty"], DataOf(u)["current_qty"])
               \/ /\ last'.reply = UNHANDLED
                  /\ UNCHANGED <<tables, sessions>>]_vars

\* An admin resolved the key while the quantity was 2, the other admin then
\* adjusted it by +1, and the first set it to 0: the movement of the SetQty
\* dialogue has delta 0 - 2 although the quantity went from 3 to 0.
C4_Witness ==
    /\ last.handler = "set_qty_note"
    /\ last.reply = "qty_updated"
    /\ Len(movements) = 2
    /\ movements[1].delta = 1
    /\ movements[2].delta = -2
    /\ movements[1].admin_tg_id # movements[2].admin_tg_id
    /\ \E i \in items : i.qty = 0

Deltas == {-1, 0, 1}

\* The quantity of item id after adjust_item_qty(id, d) on the table its.
QtyAfter(its, id, d) == (CHOOSE i \in adjust_item_qty(its, id, d) : i.id = id).qty

\* C6: for every item of the store and all integers d1 and d2, adjusting the
\* quantity by d1 and then by d2 leaves the quantity that adjusting it once
\* by d1 + d2 leaves (sums inside the numbers of the model).
C6_AdjustComposes ==
    \A i \in items : \A d1, d2 \in Deltas :
        (QtyAfter(items, i.id, d1) # Fraction /\ QtyAfter(items, i.id, d1 + d2) # Fraction) =>
            QtyAfter(adjust_item_qty(items, i.id, d1), i.id, d2) = QtyAfter(items, i.id, d1 + d2)

\* The same for the items whose quantity is an integer, below zero included.
C6_AdjustComposesIntegers ==
    \A i \in items : \A d1, d2 \in Deltas :
        ~IsFraction(i.qty) =>
            QtyAfter(adjust_item_qty(items, i.id, d1), i.id, d2) = i.qty + d1 + d2

\* C7: every movement references an item of the items table, and a
\* delete_item that deleted the item leaves no movement that references it.
C7_MovementsReferenceItems ==
    /\ [](\A k \in 1..Len(movements) : \E i \in items : i.id = movements[k].item_id)
    /\ [][\A u \in Users : \A t \in QtyTexts :
            (StateOf(u) = "DeleteItem:confirm" /\ QtyMessage(u, t)
             /\ last'.reply = "item_deleted") =>
                /\ \A i \in items' : i.id # DataOf(u)["item_id"]
                /\ \A k \in 1..Len(movements') :
                       movements'[k].item_id # DataOf(u)["item_id"]]_vars

\* An item that had two movements was deleted and its movements went with it.
C7_Witness ==
    /\ last.handler = "delete_item_confirm"
    /\ last.reply = "item_deleted"
    /\ items = {}
    /\ movements = <<>>
    /\ nextMoveId = 3

\* ----------------------------------------------------------- SpecBulk
\* SpecBulk: an admin sends BulkAdd texts of up to MaxRows lines, in every
\* order, into a store that earlier texts have filled.
MaxRows == 3

BulkItems == 2

\* The lines: a row with sku a and one with sku A, a row without qty, a row
\* with a qty and one with a min_qty that is no number, a row with qty nan
\* and one with the same sku and qty 2, and a blank line.
BulkLines ==
    { <<"a", "w", "1">>, <<"A", "v", "2">>, <<"b", "w">>, <<"c", "w", "x">>,
      <<"d", "w", "1", "", "", "W1", "x">>, <<"n", "w", "nan">>, <<"n", "v", "2">>, <<>> }

BulkTexts == UNION {[1..n -> BulkLines] : n \in 1..MaxRows}

BulkBound == nextItemId <= BulkItems + 1

BulkStarts(u, t) == ~Busy(u) /\ bulk_add_start(u, t)

BulkProcess(u, lines) == bulk_add_process(u, lines) /\ BulkBound'

NextBulk ==
    \E u \in super_admins :
        \/ \E t \in {BTN_BULK_ADD} : BulkStarts(u, t)
        \/ \E lines \in BulkTexts : BulkProcess(u, lines)

SpecBulk == Init /\ [][NextBulk]_vars

\* The step is the processing of the BulkAdd text last'.lines.
BulkDone == last'.reply = "bulk_done" /\ BulkProcess(last'.user, last'.lines)

\* A row that has sku, name and a qty and a min_qty that parse_number accepts.
RowValid(row) ==
    /\ Cell(row, 1, "") # "" /\ Cell(row, 2, "") # "" /\ Cell(row, 3, "") # ""
    /\ parse_number(Cell(row, 3, "")) # <<>>
    /\ parse_number(Cell(row, 7, "0")) # <<>>

\* The valid rows of a text whose sku is neither in the store nor in an
\* earlier valid row of the text.
RowsFresh(rows) ==
    {k \in 1..Len(rows) :
        /\ RowValid(rows[k])
        /\ \A i \in items : i.sku # Cell(rows[k], 1, "")
        /\ \A j \in 1..(k - 1) :
               RowValid(rows[j]) => Cell(rows[j], 1, "") # Cell(rows[k], 1, "")}

\* created is the number of fresh rows, skipped the number of the other valid
\* rows, and every row that is not created has exactly one row error.
CountsAsClaimed(rows) ==
    /\ last'.created = Cardinality(RowsFresh(rows))
    /\ last'.skipped =
           Cardinality({k \in 1..Len(rows) : RowValid(rows[k])} \ RowsFresh(rows))
    /\ \A k \in 1..Len(rows) :
           Cardinality({e \in 1..Len(last'.errors) : last'.errors[e][1] = k})
               = IF k \in RowsFresh(rows) THEN 0 ELSE 1

\* C8: for every BulkAdd text, created is the number of valid rows whose sku
\* was neither in the store nor in an earlier valid row of the text, skipped
\* is the number of the other valid rows (valid, with a duplicate sku), and
\* every malformed row has exactly one row error and counts toward neither;
\* so the counts do not depend on the order of the rows.
C8_BulkCounts == [][BulkDone => CountsAsClaimed(parse_bulk_lines(last'.lines))]_vars

\* The same for the texts in which no number is nan.
C8_BulkCountsOfNumbers ==
    [][(BulkDone /\ \A k \in 1..Len(last'.lines) : Cell(last'.lines[k], 3, "") # "nan")
           => CountsAsClaimed(parse_bulk_lines(last'.lines))]_vars

\* A valid row whose qty and min_qty are numbers.
RowOfNumbers(row) ==
    /\ RowValid(row)
    /\ parse_number(Cell(row, 3, ""))[1] # NaN
    /\ parse_number(Cell(row, 7, "0"))[1] # NaN

\* C9: a row that fails does not keep a later row from being processed:
\* every row of a BulkAdd text that has sku, name and numbers for qty and
\* min_qty, and whose sku is neither in the store nor that of an earlier such
\* row of the text, is inserted with its own name and quantity, whatever rows
\* come before it; and the admin has no session after the last row.
C9_RowsIndependent ==
    [][BulkDone =>
        LET rows == parse_bulk_lines(last'.lines) IN
        /\ sessions'[last'.user] = Cleared
        /\ \A k \in 1..Len(rows) :
               (/\ RowOfNumbers(rows[k])
                /\ \A i \in items : i.sku # Cell(rows[k], 1, "")
                /\ \A j \in 1..(k - 1) :
                       RowOfNumbers(rows[j]) => Cell(rows[j], 1, "") # Cell(rows[k], 1, ""))
               => \E i \in items' \ items :
                      /\ i.sku = Cell(rows[k], 1, "")
                      /\ i.name = Cell(rows[k], 2, "")
                      /\ i.qty = parse_number(Cell(rows[k], 3, ""))[1]]_vars

\* A text of three rows was processed whose first two rows failed, the first
\* for its sku being in the store already, and whose third row was created.
C9_Witness ==
    /\ last.handler = "bulk_add_process"
    /\ last.created = 1
    /\ last.skipped = 1
    /\ Len(last.errors) = 2
    /\ last.errors[1] = <<1, "sku_exists">>
    /\ last.errors[2][1] = 2
    /\ sessions[last.user] = Cleared
    /\ Cardinality(items) = 2

\* ------------------------------------------------------------------ cancel
CancelTokens == {"/cancel"} \cup CancelTexts

\* C2: whenever a user with a dialogue open sends a cancel token (/cancel or
\* a cancel text), the session of that user is cleared afterwards and no
\* table changes; and a flow changes a table only in a step that ends it
\* (the sender has no session afterwards), so that a flow that is cancelled
\* has changed none.
C2_CancelReturnsToIdle ==
    /\ [][\A u \in Users : \A t \in CancelTokens :
            (Busy(u) /\ DialogMessage(u, t)) =>
                (sessions'[u] = Cleared /\ UNCHANGED tables)]_vars
    /\ [][tables' # tables => sessions'[last'.user] = Cleared]_vars

\* The same for the users who are admins when they send the token.
C2_AdminCancel ==
    /\ [][\A u \in Users : \A t \in CancelTokens :
            (is_admin(u) /\ Busy(u) /\ DialogMessage(u, t)) =>
                (sessions'[u] = Cleared /\ UNCHANGED tables)]_vars
    /\ [][tables' # tables => sessions'[last'.user] = Cleared]_vars

\* A user who was removed from the admins in the middle of a dialogue has
\* sent something and still has the session.
C2_RemovedKeepsSession ==
    \E u \in Users : ~is_admin(u) /\ Busy(u) /\ last.user = u /\ last.reply = DENIED

\* ------------------------------------------------------------------ denial
Denial(u) ==
    /\ last'.user = u
    /\ last'.reply = DENIED
    /\ last'.handler \in {"cmd_start", "public_fallback", "public_callback"}
    /\ UNCHANGED <<tables, sessions>>

\* C3: every text message, every callback and every bulk text of a user who
\* is not in the admins table gets the denial reply from a public_router
\* handler (no flow handler runs) and changes no session and no table.
C3_NonAdminDenied ==
    [][\A u \in Users : ~is_admin(u) =>
        /\ \A t \in Texts(u) : DialogMessage(u, t) => Denial(u)
        /\ \A c \in Callbacks(u) : DialogCallback(u, c) => Denial(u)
        /\ \A lines \in Batches : DialogBulk(u, lines) => Denial(u)]_vars

\* A user who is no admin pressed a button while an admin had a dialogue open
\* and the store was not empty.
C3_Witness ==
    /\ last.user \notin admins
    /\ last.handler = "public_callback"
    /\ last.reply = DENIED
    /\ items # {}
    /\ \E v \in admins : Busy(v)

\* ------------------------------------------------------------ SpecPage
\* SpecPage: a store of up to PageItems items, none, half or all of them in
\* warehouse W1 and the others in no warehouse, and the admins list it: the
\* list button, the page buttons of the list, and the warehouse filter for
\* all warehouses, for W1 and for a warehouse that does not exist, with pages
\* from 0 to MaxPage.  A user who is no admin presses the page buttons too.
PageItems == 21
MaxPage == 4

InitPage ==
    \E n \in 0..PageItems : \E m \in {0, (n + 1) \div 2, n} :
        /\ admins = super_admins \cup {2}
        /\ items = {ItemRow(i, ToString(i), "w", 1, DEFAULT_UNIT, NoneVal,
                            IF i <= m THEN "W1" ELSE NoneVal, 0) : i \in 1..n}
        /\ nextItemId = n + 1
        /\ warehouses = {WhRow(1, "W1")}
        /\ nextWhId = 2
        /\ movements = <<>>
        /\ nextMoveId = 1
        /\ sessions = [u \in Users |-> Cleared]
        /\ last = Event(0, "none", "none")

PageAsked == 0..MaxPage

ListCbs == {[cmd |-> "list_items", arg |-> "", sort |-> "name", page |-> p] : p \in PageAsked}

FilterCbs ==
    {[cmd |-> "warehouse_filter", arg |-> a, sort |-> s, page |-> p] :
        a \in {"0", "1", "2"}, s \in {"name", "qty"}, p \in PageAsked}

\* The menus and the reports an admin opens in between.
ReadTexts == {BTN_REPORTS, BTN_LOW_STOCK}

ReadCbs == {Cb("settings_menu", ""), Cb("history", "")}

NextPage ==
    \E u \in Users :
        \/ list_items_message(u, BTN_LIST_ITEMS)
        \/ \E c \in ListCbs : list_items_callback(u, c)
        \/ \E c \in FilterCbs : warehouse_filter(u, c)
        \/ \E c \in ListCbs : public_callback(u, c)
        \/ \E t \in ReadTexts : menu_message(u, t)
        \/ \E t \in ReadTexts : report_message(u, t)
        \/ \E c \in ReadCbs : menu_callback(u, c)
        \/ \E c \in ReadCbs : report_callback(u, c)

SpecPage == InitPage /\ [][NextPage]_vars

\* The number of items the filter of callback c selects: all of them for
\* warehouse id 0, else those whose warehouse is the name of that warehouse.
FilterTotal(c) ==
    IF c.arg = "0" THEN Cardinality(items)
    ELSE Cardinality({i \in items :
                        \E w \in warehouses : w.id = ToInt(c.arg) /\ i.warehouse = w.name})

\* p = ceil(n / PAGE_SIZE)
IsCeil(p, n) == (p - 1) * PAGE_SIZE < n /\ n <= p * PAGE_SIZE

\* p = max(1, ceil(n / PAGE_SIZE))
IsCeilOrOne(p, n) == IF n = 0 THEN p = 1 ELSE IsCeil(p, n)

\* C10 as stated: the item list and the per-warehouse list of N items report
\* ceil(N / PAGE_SIZE) total pages, for every N >= 0.
C10_CeilPages ==
    [][\A u \in Users :
        /\ list_items_message(u, BTN_LIST_ITEMS) => IsCeil(last'.pages, Cardinality(items))
        /\ \A c \in ListCbs :
             list_items_callback(u, c) => IsCeil(last'.pages, Cardinality(items))
        /\ \A c \in FilterCbs :
             (warehouse_filter(u, c) /\ last'.reply # "warehouse_not_found")
                 => IsCeil(last'.pages, FilterTotal(c))]_vars

\* C10, amended: the item list and the list of an existing warehouse (or of
\* all warehouses) over N items report max(1, ceil(N / PAGE_SIZE)) total
\* pages: ceil(N / PAGE_SIZE) when N >= 1, and one page when N = 0.
C10_CeilPagesAtLeastOne ==
    [][\A u \in Users :
        /\ list_items_message(u, BTN_LIST_ITEMS)
             => IsCeilOrOne(last'.pages, Cardinality(items))
        /\ \A c \in ListCbs :
             list_items_callback(u, c) => IsCeilOrOne(last'.pages, Cardinality(items))
        /\ \A c \in FilterCbs :
             (warehouse_filter(u, c) /\ last'.reply # "warehouse_not_found")
                 => IsCeilOrOne(last'.pages, FilterTotal(c))]_vars

\* The store holds 21 items, 11 of them in W1, and the filter for W1, asked
\* for page 4, showed page 2 of 2.
C10_Witness ==
    /\ Cardinality(items) = 21
    /\ Cardinality({i \in items : i.warehouse = "W1"}) = 11
    /\ last.handler = "warehouse_filter"
    /\ last.reply = "items_page"
    /\ last.kb_page = 4
    /\ last.page = 2
    /\ last.pages = 2

\* The last page of a list of n items.
LastPage(n) == CHOOSE p \in 1..(n + 1) : IsCeilOrOne(p, n)

\* The list of n items, asked for page asked, shows the last page when asked
\* is beyond it and page 1 when asked is below 1 (and the page asked for
\* otherwise); the page shown has rows unless the list is empty.
ShowsClamped(asked, n) ==
    /\ asked > LastPage(n) => last'.page = LastPage(n)
    /\ asked < 1 => last'.page = 1
    /\ asked \in 1..LastPage(n) => last'.page = asked
    /\ last'.reply = (IF n = 0 THEN "no_items" ELSE "items_page")

\* C11: a page request (a page button of the item list, the warehouse
\* filter) with a page number greater than the last page shows the last
\* page, and one with a page number below 1 shows page 1.
C11_PageClamped ==
    [][\A u \in Users :
        /\ \A c \in ListCbs :
             list_items_callback(u, c) => ShowsClamped(c.page, Cardinality(items))
        /\ \A c \in FilterCbs :
             (warehouse_filter(u, c) /\ last'.reply # "warehouse_not_found")
                 => ShowsClamped(c.page, FilterTotal(c))]_vars

\* The store holds 21 items and the item list, asked for page 4, showed
\* page 3 of 3.
C11_Witness ==
    /\ Cardinality(items) = 21
    /\ last.handler = "list_items_callback"
    /\ last.reply = "items_page"
    /\ last.kb_page = 4
    /\ last.page = 3
    /\ last.pages = 3

\* --------------------------------------------------------- super-admins
AdminFlowHandlers ==
    {"admin_add_start", "admin_add_tg_id", "admin_add_name", "admin_remove_start",
     "admin_remove_tg_id"}

GatedHandlers == AdminFlowHandlers \cup {"warehouse_add_start", "warehouse_add_name"}

\* C12: whenever the entry or a step of the AddAdmin, RemoveAdmin or
\* AddWarehouse flow handles an event of a user who is no super-admin, the
\* reply is the refusal, no table changes and the user has no session
\* afterwards.
C12_SuperAdminRechecked ==
    [][(last'.handler \in GatedHandlers /\ ~is_super_admin(last'.user)) =>
           /\ last'.reply = "no_rights"
           /\ UNCHANGED tables
           /\ sessions'[last'.user] = Cleared]_vars

\* The same for the AddAdmin and RemoveAdmin flows alone, the session being
\* left as it was.
C12_AdminFlowsGated ==
    [][(last'.handler \in AdminFlowHandlers /\ ~is_super_admin(last'.user)) =>
           /\ last'.reply = "no_rights"
           /\ UNCHANGED <<tables, sessions>>]_vars

\* An admin who is no super-admin added a warehouse.
C12_WarehouseByAdmin ==
    /\ ~is_super_admin(last.user)
    /\ last.handler = "warehouse_add_name"
    /\ last.reply = "warehouse_added"
    /\ warehouses # {}

\* ---------------------------------------------------------- SpecAdmins
\* SpecAdmins: the super-admin adds and removes admins (itself included, and
\* user 3) while admin 2 opens an AddItem dialogue; whoever is not in the
\* admins table sends a text or presses a button all the same, and the
\* buttons of the admin menu are pressed in the middle of a dialogue too.
AdmAnswers(st) ==
    CASE st = "AddItem:sku" -> {"a"}
      [] st = "AddAdmin:tg_id" -> {"2", "3", "x"}
      [] st = "AddAdmin:name" -> {"-"}
      [] st = "RemoveAdmin:tg_id" -> {"1", "2", "3"}
      [] OTHER -> {}

AdmTexts == {BTN_ADD_ITEM, "/cancel", "a", "1", "2", "3", "x", "-"}

AdmSends(u, t) ==
    t \in (IF ~is_admin(u) THEN {"/cancel", "a"}
           ELSE IF Busy(u) THEN {"/cancel"} \cup AdmAnswers(StateOf(u))
           ELSE {BTN_ADD_ITEM})

AdmMessage(u, t) ==
    \/ AdmSends(u, t) /\ public_fallback(u, t)
    \/ AdmSends(u, t) /\ cmd_cancel(u, t)
    \/ AdmSends(u, t) /\ add_item_start(u, t)
    \/ AdmSends(u, t) /\ add_item_sku(u, t)
    \/ AdmSends(u, t) /\ admin_add_tg_id(u, t)
    \/ AdmSends(u, t) /\ admin_add_name(u, t)
    \/ AdmSends(u, t) /\ admin_remove_tg_id(u, t)

AdmCallback(u, c) ==
    \/ public_callback(u, c)
    \/ admin_add_start(u, c)
    \/ admin_remove_start(u, c)

NextAdmins ==
    \E u \in Users :
        \/ \E t \in AdmTexts : AdmMessage(u, t)
        \/ \E c \in AdminCbs : AdmCallback(u, c)

SpecAdmins == Init /\ [][NextAdmins]_vars

\* C13: the admins table changes only in a step that handles an event of a
\* user who is, before the step, in the admins table and a configured
\* super-admin.
C13_OnlySuperAdminsChangeAdmins ==
    [][admins' # admins => (last'.user \in admins /\ last'.user \in super_admins)]_vars

\* The super-admin added user 3 and removed admin 2.
C13_Witness ==
    /\ admins = {1, 3}
    /\ last.user = 1
    /\ last.handler = "admin_remove_tg_id"
    /\ last.reply = "admin_removed"

\* ----------------------------------------------------------- SpecRoute
\* SpecRoute: an admin, idle or in the middle of a dialogue, sends the text
\* of a menu button, a command or a plain text, or presses a button that
\* starts a flow.  The store is empty, so every item key is unknown.
RouteTexts == StartTexts \cup {"/menu", BTN_LIST_ITEMS, "zz"}

RouteCbs ==
    {Cb("bulk_add", ""), Cb("add_item", ""), Cb("adjust_qty", ""), Cb("set_qty", ""),
     Cb("delete_item", ""), Cb("search", ""), Cb("update_item", "")}

\* One admin is in a dialogue at a time; the text of a BulkAdd message is a
\* list of rows (see SpecBulk).
RouteSends(u, t) == OthersIdle(u) /\ (StateOf(u) = "BulkAdd:lines" => t # "zz")

RouteMessage(u, t) ==
    \/ RouteSends(u, t) /\ menu_message(u, t)
    \/ RouteSends(u, t) /\ admin_unknown(u, t)
    \/ RouteSends(u, t) /\ list_items_message(u, t)
    \/ RouteSends(u, t) /\ bulk_add_start(u, t)
    \/ RouteSends(u, t) /\ add_item_start(u, t)
    \/ RouteSends(u, t) /\ adjust_qty_start(u, t)
    \/ RouteSends(u, t) /\ set_qty_start(u, t)
    \/ RouteSends(u, t) /\ delete_item_start(u, t)
    \/ RouteSends(u, t) /\ add_item_sku(u, t)
    \/ RouteSends(u, t) /\ add_item_name(u, t)
    \/ RouteSends(u, t) /\ add_item_qty(u, t)
    \/ RouteSends(u, t) /\ adjust_qty_key(u, t)
    \/ RouteSends(u, t) /\ set_qty_key(u, t)
    \/ RouteSends(u, t) /\ delete_item_key(u, t)
    \/ RouteSends(u, t) /\ search_run(u, t)
    \/ RouteSends(u, t) /\ update_item_key(u, t)

RouteCallback(u, c) == OthersIdle(u) /\ start_callback(u, c)

NextRoute ==
    \E u \in Users :
        \/ \E t \in RouteTexts : RouteMessage(u, t)
        \/ \E c \in RouteCbs : RouteCallback(u, c)

SpecRoute == Init /\ [][NextRoute]_vars

\* The first step of the flow a menu button starts.
TriggerFlow(t) ==
    CASE t = BTN_ADD_ITEM -> "AddItem:sku"
      [] t = BTN_BULK_ADD -> "BulkAdd:lines"
      [] t = BTN_ADJUST_QTY -> "AdjustItem:key"
      [] t = BTN_SET_QTY -> "SetQty:key"
      [] t = BTN_DELETE_ITEM -> "DeleteItem:key"

\* The first step of the flow a callback starts.
TriggerFlowCb(c) ==
    CASE c.cmd = "add_item" -> "AddItem:sku"
      [] c.cmd = "bulk_add" -> "BulkAdd:lines"
      [] c.cmd = "adjust_qty" -> "AdjustItem:key"
      [] c.cmd = "set_qty" -> "SetQty:key"
      [] c.cmd = "delete_item" -> "DeleteItem:key"
      [] c.cmd = "search" -> "SearchItem:query"
      [] c.cmd = "update_item" -> "UpdateItem:key"

\* C14: when an admin in the middle of a dialogue sends the text of a
\* flow-start button or presses a flow-start button, the session is
\* afterwards at the first step of that flow.
C14_TriggerRestarts ==
    [][\A u \in Users : Busy(u) =>
          /\ \A t \in StartTexts :
               RouteMessage(u, t) => sessions'[u].state = TriggerFlow(t)
          /\ \A c \in RouteCbs :
               RouteCallback(u, c) => sessions'[u].state = TriggerFlowCb(c)]_vars

\* What holds instead: the callbacks, and the two buttons registered before
\* every step handler, restart the flow.
C14_EarlyTriggersRestart ==
    [][\A u \in Users : Busy(u) =>
          /\ \A t \in {BTN_ADD_ITEM, BTN_BULK_ADD} :
               RouteMessage(u, t) => sessions'[u].state = TriggerFlow(t)
          /\ \A c \in RouteCbs :
               RouteCallback(u, c) => sessions'[u].state = TriggerFlowCb(c)]_vars

\* The text of the adjust button was taken as the sku of the new item.
C14_ButtonTakenAsSku ==
    /\ last.handler = "add_item_sku"
    /\ StateOf(last.user) = "AddItem:name"
    /\ Get(DataOf(last.user), "sku") = BTN_ADJUST_QTY

\* The handler of a step of a dialogue.
StepHandler(st) ==
    CASE st = "AddItem:sku" -> "add_item_sku"
      [] st = "AddItem:name" -> "add_item_name"
      [] st = "AddItem:qty" -> "add_item_qty"
      [] st = "AdjustItem:key" -> "adjust_qty_key"
      [] st = "SetQty:key" -> "set_qty_key"
      [] st = "DeleteItem:key" -> "delete_item_key"
      [] st = "SearchItem:query" -> "search_run"
      [] st = "UpdateItem:key" -> "update_item_key"
      [] st = "BulkAdd:lines" -> "bulk_add_process"

\* C15: a text other than the cancel token that an admin with a session
\* sends is handled by the handler of the session's current step.
C15_SessionTextToStep ==
    [][\A u \in Users : Busy(u) =>
          \A t \in RouteTexts :
              RouteMessage(u, t) => last'.handler = StepHandler(StateOf(u))]_vars

\* What holds instead: a text that is neither a command nor the text of a
\* menu button is handled by the step.
C15_PlainTextToStep ==
    [][\A u \in Users : Busy(u) =>
          (RouteMessage(u, "zz") => last'.handler = StepHandler(StateOf(u)))]_vars

\* /menu was answered by cmd_menu in the middle of a dialogue.
C15_MenuDuringSession ==
    /\ last.handler = "cmd_menu"
    /\ Busy(last.user)

\* ------------------------------------------------------------ SpecStep
\* SpecStep: the store holds four items and no warehouse: the sku of item 1
\* is the id of item 2 and the other way round, item 3 is "a", and the sku of
\* item 4 is the capital letter U+0416, written by its code point (the small
\* letter is U+0436).  One admin at a time walks through the validating steps
\* of AddItem, AdjustItem, UpdateItem, AddAdmin and BulkAdd, answering each
\* with inputs the step accepts and inputs it has to refuse, or leaves with
\* /cancel.
InitStep ==
    /\ admins = super_admins \cup {2}
    /\ items = {ItemRow(1, "2", "w", 2, DEFAULT_UNIT, NoneVal, NoneVal, 0),
                ItemRow(2, "1", "w", 2, DEFAULT_UNIT, NoneVal, NoneVal, 0),
                ItemRow(3, "a", "w", 2, DEFAULT_UNIT, NoneVal, NoneVal, 0),
                ItemRow(4, "U+0416", "w", 2, DEFAULT_UNIT, NoneVal, NoneVal, 0)}
    /\ nextItemId = 5
    /\ warehouses = {}
    /\ nextWhId = 1
    /\ movements = <<>>
    /\ nextMoveId = 1
    /\ sessions = [u \in Users |-> Cleared]
    /\ last = Event(0, "none", "none")

\* The keys sent at the key step of AdjustItem.
KeyTexts == {"zz", "a", "A", "1", " 1 ", "2", "3", "0", "U+0416", "U+0436"}

StepAnswers(st) ==
    CASE st = "AddItem:sku" -> {" ", "A", "b"}
      [] st = "AddItem:name" -> {" ", "w", "v"}
      [] st = "AddItem:qty" -> {"x", "nan", "1", "2"}
      [] st = "AddItem:unit" -> {"-"}
      [] st = "AddItem:location" -> {"-"}
      [] st = "AddItem:min_qty" -> {"x"}
      [] st = "AdjustItem:key" -> KeyTexts
      [] st = "AdjustItem:delta" -> {"x", "nan", "+1"}
      [] st = "UpdateItem:key" -> {"zz", "a"}
      [] st = "UpdateItem:field" -> {"color", "min_qty"}
      [] st = "UpdateItem:value" -> {"x"}
      [] st = "AddAdmin:tg_id" -> {"x"}
      [] OTHER -> {}

StepStartTexts == {BTN_ADD_ITEM, BTN_ADJUST_QTY, BTN_BULK_ADD}

StepTexts ==
    StepStartTexts \cup {"/cancel", " ", "A", "b", "w", "v", "x", "nan", "1", "2", "-", "zz",
                         "a", "+1", "color", "min_qty"} \cup KeyTexts

StepPressed(st) ==
    CASE st = NoneVal -> {Cb("update_item", ""), Cb("admin_add", "")}
      [] st = "AddItem:warehouse" -> {Cb("warehouse_select", "3"), Cb("warehouse_select", "0")}
      [] OTHER -> {}

StepCbUniverse ==
    {Cb("update_item", ""), Cb("admin_add", ""),
     Cb("warehouse_select", "3"), Cb("warehouse_select", "0")}

StepSends(u, t) ==
    /\ OthersIdle(u)
    /\ t \in (IF Busy(u) THEN {"/cancel"} \cup StepAnswers(StateOf(u)) ELSE StepStartTexts)

StepMessage(u, t) ==
    \/ StepSends(u, t) /\ cmd_cancel(u, t)
    \/ StepSends(u, t) /\ add_item_start(u, t)
    \/ StepSends(u, t) /\ adjust_qty_start(u, t)
    \/ StepSends(u, t) /\ bulk_add_start(u, t)
    \/ StepSends(u, t) /\ add_item_sku(u, t)
    \/ StepSends(u, t) /\ add_item_name(u, t)
    \/ StepSends(u, t) /\ add_item_qty(u, t)
    \/ StepSends(u, t) /\ add_item_unit(u, t)
    \/ StepSends(u, t) /\ add_item_location(u, t)
    \/ StepSends(u, t) /\ add_item_min(u, t)
    \/ StepSends(u, t) /\ adjust_qty_key(u, t)
    \/ StepSends(u, t) /\ adjust_qty_delta(u, t)
    \/ StepSends(u, t) /\ update_item_key(u, t)
    \/ StepSends(u, t) /\ update_item_field(u, t)
    \/ StepSends(u, t) /\ update_item_value(u, t)
    \/ StepSends(u, t) /\ admin_add_tg_id(u, t)

StepCallback(u, c) ==
    \/ OthersIdle(u) /\ c \in StepPressed(StateOf(u)) /\ start_callback(u, c)
    \/ OthersIdle(u) /\ c \in StepPressed(StateOf(u)) /\ admin_add_start(u, c)
    \/ OthersIdle(u) /\ c \in StepPressed(StateOf(u)) /\ add_item_warehouse_select(u, c)

\* A BulkAdd message without a row.
StepBulk(u) == OthersIdle(u) /\ bulk_add_process(u, <<>>)

NextStep ==
    \E u \in Users :
        \/ \E t \in StepTexts : StepMessage(u, t)
        \/ \E c \in StepCbUniverse : StepCallback(u, c)
        \/ StepBulk(u)

SpecStep == InitStep /\ [][NextStep]_vars

\* The inputs a step has to refuse: an empty or duplicate sku, an empty name,
\* a text that is no decimal number, an unknown item key, an unknown field,
\* an admin id that is no number.
InvalidInputs(st) ==
    CASE st = "AddItem:sku" -> {" ", "A"}
      [] st = "AddItem:name" -> {" "}
      [] st \in {"AddItem:qty", "AdjustItem:delta"} -> {"x", "nan"}
      [] st \in {"AddItem:min_qty", "UpdateItem:value"} -> {"x"}
      [] st \in {"AdjustItem:key", "UpdateItem:key"} -> {"zz"}
      [] st = "UpdateItem:field" -> {"color"}
      [] st = "AddAdmin:tg_id" -> {"x"}
      [] OTHER -> {}

\* The same without the texts float() takes for a number.
RefusedInputs(st) == InvalidInputs(st) \ {"nan"}

\* C16: at a validating step an invalid input (an unknown warehouse id and a
\* BulkAdd text without rows included) leaves the session at the same step
\* with the same values, and leaves every table unchanged.
C16_InvalidInputKeepsStep ==
    [][\A u \in Users :
          /\ \A t \in InvalidInputs(StateOf(u)) :
               StepMessage(u, t) => UNCHANGED <<sessions, tables>>
          /\ StepCallback(u, Cb("warehouse_select", "3")) => UNCHANGED <<sessions, tables>>
          /\ StepBulk(u) => UNCHANGED <<sessions, tables>>]_vars

\* What holds instead: every input parse_number and the other validations
\* refuse keeps the step, the values and the tables.
C16_RefusedInputKeepsStep ==
    [][\A u \in Users :
          /\ \A t \in RefusedInputs(StateOf(u)) :
               StepMessage(u, t) => UNCHANGED <<sessions, tables>>
          /\ StepCallback(u, Cb("warehouse_select", "3")) => UNCHANGED <<sessions, tables>>
          /\ StepBulk(u) => UNCHANGED <<sessions, tables>>]_vars

\* "nan" was taken for the quantity and the dialogue went on to the unit.
C16_NanAdvances ==
    /\ last.handler = "add_item_qty"
    /\ StateOf(last.user) = "AddItem:unit"
    /\ Get(DataOf(last.user), "qty") = NaN

\* ------------------------------------------------- errors and commit steps
\* C17: no step handler ends in an unhandled error, also when another admin
\* has deleted the item the dialogue is about.
C17_NoUnhandledError == last.reply # UNHANDLED

\* What holds instead: a handler raises only in a commit step whose item is
\* gone, and then nothing is written.
C17_RaisesOnlyForDeletedItem ==
    [][last'.reply = UNHANDLED =>
          /\ last'.handler \in {"adjust_qty_note", "set_qty_note"}
          /\ get_item_by_id(DataOf(last'.user)["item_id"]) = {}
          /\ UNCHANGED <<tables, sessions>>]_vars

\* The other admin deleted the item; the note of the AdjustItem dialogue then
\* ended in the IntegrityError of add_movement.
C17_AdjustAfterDelete ==
    /\ last.handler = "adjust_qty_note"
    /\ last.reply = UNHANDLED
    /\ items = {}

CommitHandlers == {"adjust_qty_note", "set_qty_note", "delete_item_confirm"}

\* C18: after the commit step of a flow has handled an input that passes
\* validation the user has no session, whether the commit succeeded or failed.
C18_CommitEndsSession ==
    [][last'.handler \in CommitHandlers => sessions'[last'.user] = Cleared]_vars

\* What holds instead: the session is cleared unless the handler raised.
C18_CommitEndsSessionUnlessRaised ==
    [][(last'.handler \in CommitHandlers /\ last'.reply # UNHANDLED)
          => sessions'[last'.user] = Cleared]_vars

\* The commit of a SetQty dialogue failed and the session is still at the note.
C18_SessionAfterFailedCommit ==
    /\ last.handler = "set_qty_note"
    /\ last.reply = UNHANDLED
    /\ StateOf(last.user) = "SetQty:note"

\* ------------------------------------------------- removed in a dialogue
\* C19: when a user who has a dialogue open and is no longer in the admins
\* table sends an event, the reply is the denial and the session of the user
\* is cleared.
C19_RemovedSessionCleared ==
    [][\A u \in Users :
          (~is_admin(u) /\ Busy(u) /\ last'.user = u) =>
              (last'.reply = DENIED /\ sessions'[u] = Cleared)]_vars

\* What holds instead: the reply is the denial and the session is kept.
C19_RemovedSessionKept ==
    [][\A u \in Users :
          (~is_admin(u) /\ Busy(u) /\ last'.user = u) =>
              (last'.reply = DENIED /\ sessions'[u] = sessions[u])]_vars

\* Admin 2 was removed at the sku step of AddItem, was denied, and is still
\* at that step.
C19_DeniedAtSkuStep ==
    /\ last.user = 2
    /\ last.handler = "public_fallback"
    /\ last.reply = DENIED
    /\ 2 \notin admins
    /\ StateOf(2) = "AddItem:sku"

\* ------------------------------------------------------- get_item_by_key
\* Unicode lower case on the texts of the model.
UnicodeLower(t) ==
    CASE t = "A" -> "a"
      [] t = "U+0416" -> "U+0436"
      [] OTHER -> t

\* The items C20 names for key t (taken without the blanks around it): the
\* item with that id when the key is a string of digits and the id exists,
\* otherwise the items whose sku equals the key ignoring case.
ClaimedItems(t) ==
    IF IsDigit(Strip(t)) /\ \E i \in items : i.id = ToInt(Strip(t))
    THEN {i \in items : i.id = ToInt(Strip(t))}
    ELSE {i \in items : UnicodeLower(i.sku) = UnicodeLower(Strip(t))}

\* The same with the case of the ASCII letters ignored only.
FoundItems(t) ==
    IF IsDigit(Strip(t)) /\ \E i \in items : i.id = ToInt(Strip(t))
    THEN {i \in items : i.id = ToInt(Strip(t))}
    ELSE {i \in items : SqlLower(i.sku) = SqlLower(Strip(t))}

\* adjust_qty_key resolved the key to an item of S, or to none when S is empty.
ResolvesTo(u, S) ==
    IF S = {} THEN last'.reply = "item_not_found" /\ UNCHANGED sessions
    ELSE /\ last'.reply = "prompt"
         /\ \E i \in S : sessions'[u].data["item_id"] = i.id

\* C20: get_item_by_key(key) is the item with id key when key is a string of
\* digits and that item exists, otherwise the item whose sku equals key
\* ignoring case, otherwise not-found.
C20_KeyResolves ==
    [][\A u \in Users : \A t \in KeyTexts :
          (StateOf(u) = "AdjustItem:key" /\ StepMessage(u, t))
              => ResolvesTo(u, ClaimedItems(t))]_vars

\* What holds instead: the sku is compared with the case of the ASCII
\* letters ignored, the case of other letters is not.
C20_KeyResolvesAscii ==
    [][\A u \in Users : \A t \in KeyTexts :
          (StateOf(u) = "AdjustItem:key" /\ StepMessage(u, t))
              => ResolvesTo(u, FoundItems(t))]_vars

\* Key "1" is the id of item 1 and the sku of item 2: item 1 was found.
C20_IdBeforeSku ==
    /\ last.handler = "adjust_qty_key"
    /\ StateOf(last.user) = "AdjustItem:delta"
    /\ DataOf(last.user)["item_id"] = 1
    /\ \E i \in items : i.id = 2 /\ i.sku = "1"

\* ------------------------------------------------------------ SpecEdit
\* SpecEdit: the store holds item 1 (sku "a", location "L", warehouse "W1")
\* and item 2 (sku "b", no location, no warehouse).  One admin at a time
\* edits them in UpdateItem dialogues, started by 'update_item' or by
\* 'set_min' (pressed in the middle of a dialogue too), and deletes item 1 in
\* a DeleteItem dialogue, answering the confirmation in several ways.
InitEdit ==
    /\ admins = super_admins \cup {2}
    /\ items = {ItemRow(1, "a", "w", 2, DEFAULT_UNIT, "L", "W1", 0),
                ItemRow(2, "b", "w", 2, DEFAULT_UNIT, NoneVal, NoneVal, 0)}
    /\ nextItemId = 3
    /\ warehouses = {WhRow(1, "W1")}
    /\ nextWhId = 2
    /\ movements = <<>>
    /\ nextMoveId = 1
    /\ sessions = [u \in Users |-> Cleared]
    /\ last = Event(0, "none", "none")

EditAnswers(u, st) ==
    CASE st = "UpdateItem:key" -> {"a", "b"}
      [] st = "UpdateItem:field" -> {"location", "warehouse", "sku"}
      [] st = "UpdateItem:value" ->
            IF DataOf(u)["field"] = "min_qty" THEN {"-", "1"} ELSE {"-", "b"}
      [] st = "DeleteItem:key" -> {"a"}
      [] st = "DeleteItem:confirm" -> {"da", "DA", "no"}
      [] OTHER -> {}

EditTexts ==
    {BTN_DELETE_ITEM, "/cancel", "a", "b", "location", "warehouse", "sku", "-", "1",
     "da", "DA", "no"}

EditCbs == {Cb("update_item", ""), Cb("set_min", "")}

EditSends(u, t) ==
    /\ OthersIdle(u)
    /\ t \in (IF Busy(u) THEN {"/cancel"} \cup EditAnswers(u, StateOf(u))
           ELSE {BTN_DELETE_ITEM})

EditMessage(u, t) ==
    \/ EditSends(u, t) /\ cmd_cancel(u, t)
    \/ EditSends(u, t) /\ update_item_key(u, t)
    \/ EditSends(u, t) /\ update_item_field(u, t)
    \/ EditSends(u, t) /\ update_item_value(u, t)
    \/ EditSends(u, t) /\ delete_item_start(u, t)
    \/ EditSends(u, t) /\ delete_item_key(u, t)
    \/ EditSends(u, t) /\ delete_item_confirm(u, t)

EditCallback(u, c) ==
    \/ OthersIdle(u) /\ start_callback(u, c)
    \/ OthersIdle(u) /\ set_min_start(u, c)

NextEdit ==
    \E u \in Users :
        \/ \E t \in EditTexts : EditMessage(u, t)
        \/ \E c \in EditCbs : EditCallback(u, c)

SpecEdit == InitEdit /\ [][NextEdit]_vars

\* The item an UpdateItem or DeleteItem dialogue of u is about.
ItemOf(its, u) == {i \in its : i.id = DataOf(u)["item_id"]}

\* u is at the value step of field f.
AtValueOf(u, f) == StateOf(u) = "UpdateItem:value" /\ DataOf(u)["field"] = f

\* C21: "-" as the new value of location or warehouse leaves the item with
\* that field empty.
C21_SentinelClearsField ==
    [][\A u \in Users : \A f \in {"location", "warehouse"} :
          (AtValueOf(u, f) /\ EditMessage(u, "-"))
              => \A i \in ItemOf(items', u) : i[f] = NoneVal]_vars

\* What holds instead: "-" is reported as an update and no item changes.
C21_SentinelKeepsField ==
    [][\A u \in Users : \A f \in {"location", "warehouse"} :
          (AtValueOf(u, f) /\ EditMessage(u, "-"))
              => (items' = items /\ last'.reply \in {"item_updated", UNHANDLED})]_vars

C25_GenericStartSelectsField ==
    [][\A u \in Users :
          (/\ last.user = u /\ last.handler = "update_item_start"
           /\ last'.user = u /\ last'.handler = "update_item_key" /\ last'.reply = "prompt")
              => sessions'[u].state = "UpdateItem:field"]_vars

\* What holds instead: the key step goes to the value step exactly when the
\* session holds a preset field, which set_min_start puts there and
\* update_item_start does not remove.
C25_PresetSkipsSelection ==
    [][\A u \in Users :
          (last'.user = u /\ last'.handler = "update_item_key" /\ last'.reply = "prompt")
              => sessions'[u].state =
                    (IF Truthy(DataOf(u), "preset_field") THEN "UpdateItem:value"
                     ELSE "UpdateItem:field")]_vars

\* 'update_item' was pressed in a dialogue that 'set_min' had started, and
\* the key step went on to the value of min_qty.
C25_GenericStartSkipsSelection ==
    /\ last.handler = "update_item_start"
    /\ StateOf(last.user) = "UpdateItem:key"
    /\ Truthy(DataOf(last.user), "preset_field")

\* ------------------------------------------------------------- SpecLow
\* Database.list_low_stock(limit=100): the default of the parameter, which
\* is what low_stock passes.
LOW_STOCK_LIMIT == 100

\* ORDER BY qty ASC: row x comes before row y.  The order of rows of equal
\* qty is not specified; dir = 1 takes them by ascending id, dir = -1 by
\* descending id.
QtyBefore(x, y, dir) ==
    \/ Hundredths(x.qty) < Hundredths(y.qty)
    \/ Hundredths(x.qty) = Hundredths(y.qty) /\ dir * x.id <= dir * y.id

\* The rows of a set of pairs <<place, row>>, by place.
ByPlace(R) == [k \in 1..Cardinality(R) |-> (CHOOSE p \in R : p[1] = k)[2]]

\* The rows of S in that order: the k-th is the row that k rows (itself
\* included) come before or at.
OrderByQty(S, dir) ==
    ByPlace({<<Cardinality({y \in S : QtyBefore(y, x, dir)}), x>> : x \in S})

\* LIMIT ?
Limit(rows, limit) == IF Len(rows) <= limit THEN rows ELSE SubSeq(rows, 1, limit)

\* Database.list_low_stock: the rows fetchall() returns.
list_low_stock_rows(limit, dir) == Limit(OrderByQty(list_low_stock, dir), limit)

\* low_stock: the table of db.list_low_stock(), or the text that there is
\* none; lines holds the ids of the rows of the table, in their order.
low_stock(u, t) ==
    /\ Routed(u, t, "low_stock")
    /\ \E dir \in {1, -1} :
         LET rows == list_low_stock_rows(LOW_STOCK_LIMIT, dir) IN
         last' = [Event(u, "low_stock", IF rows = <<>> THEN "no_low_stock" ELSE "low_stock_table")
                    EXCEPT !.lines = [k \in 1..Len(rows) |-> rows[k].id]]
    /\ UNCHANGED <<tables, sessions>>

\* SpecLow: a store of up to five or of about LOW_STOCK_LIMIT items, whose
\* quantities and minimum quantities follow one of five patterns (the large
\* stores the two in which every item is low), and the users ask for the
\* low-stock report.
LowItems == 101

LowCounts == (0..5) \cup ((LowItems - 1)..LowItems)

LowPatterns(n) == IF n <= 5 THEN 1..5 ELSE {1, 4}

\* Pattern 1: quantities 1, 2, ..., every one below its minimum.
\* Pattern 2: quantities 0, 1, ..., minimum 0 for the items of odd id.
\* Pattern 3: quantities 1, 2, ..., minimum 2: item 2 is at its minimum.
\* Pattern 4: quantities n-1, ..., 0, every one below its minimum.
\* Pattern 5: every quantity 1, at its minimum.
LowQty(k, i, n) ==
    CASE k \in {1, 3} -> i
      [] k = 2 -> i - 1
      [] k = 4 -> n - i
      [] k = 5 -> 1

LowMin(k, i) ==
    CASE k \in {1, 4} -> LowItems + 100
      [] k = 2 -> IF i % 2 = 1 THEN 0 ELSE LowItems + 100
      [] k = 3 -> 2
      [] k = 5 -> 1

InitLow ==
    \E n \in LowCounts : \E k \in LowPatterns(n) :
        /\ admins = super_admins \cup {2}
        /\ items = {ItemRow(i, ToString(i), "w", LowQty(k, i, n), DEFAULT_UNIT, NoneVal,
                            NoneVal, LowMin(k, i)) : i \in 1..n}
        /\ nextItemId = n + 1
        /\ warehouses = {}
        /\ nextWhId = 1
        /\ movements = <<>>
        /\ nextMoveId = 1
        /\ sessions = [u \in Users |-> Cleared]
        /\ last = Event(0, "none", "none")

LowMessage(u, t) ==
    \/ public_fallback(u, t)
    \/ low_stock(u, t)

NextLow == \E u \in Users : LowMessage(u, BTN_LOW_STOCK)

SpecLow == InitLow /\ [][NextLow]_vars

\* The items with min_qty > 0 and qty <= min_qty (the numbers of SpecLow are
\* integers).
LowStock == {i \in items : i.min_qty > 0 /\ i.qty <= i.min_qty}

Returned == {last.lines[k] : k \in 1..Len(last.lines)}

QtyOfId(id) == (CHOOSE i \in items : i.id = id).qty

\* The rows are items of LowStock, each once, in ascending order of qty.
LowRowsOrdered ==
    /\ Returned \subseteq {i.id : i \in LowStock}
    /\ Cardinality(Returned) = Len(last.lines)
    /\ \A k \in 1..(Len(last.lines) - 1) :
          QtyOfId(last.lines[k]) <= QtyOfId(last.lines[k + 1])
    /\ (last.reply = "no_low_stock") = (LowStock = {})

\* C24 as stated: list_low_stock returns exactly the items with min_qty > 0
\* and qty <= min_qty, in ascending order of qty.
C24_LowStockExactly ==
    last.handler = "low_stock" =>
        /\ LowRowsOrdered
        /\ Returned = {i.id : i \in LowStock}

\* C24: list_low_stock returns the first LOW_STOCK_LIMIT of the items with
\* min_qty > 0 and qty <= min_qty in ascending order of qty (all of them when
\* they are no more than that); an item with min_qty 0 is never returned.
C24_LowStockUpToLimit ==
    last.handler = "low_stock" =>
        /\ LowRowsOrdered
        /\ Len(last.lines) =
              (IF Cardinality(LowStock) <= LOW_STOCK_LIMIT THEN Cardinality(LowStock)
               ELSE LOW_STOCK_LIMIT)
        /\ \A i \in LowStock : i.id \notin Returned =>
              \A id \in Returned : QtyOfId(id) <= i.qty
        /\ \A i \in items : i.min_qty = 0 => i.id \notin Returned

\* The report of a store of three items, the first with quantity 0 and
\* minimum 0: only item 2 is low.
C24_Witness ==
    /\ last.handler = "low_stock"
    /\ last.lines = <<2>>
    /\ \E i \in items : i.id = 1 /\ i.qty = 0 /\ i.min_qty = 0
    /\ Cardinality(items) = 3

\* ------------------------------------------------------------- SpecAdd
\* SpecAdd: the store holds item 1 (sku "a", unit "kg", location "L",
\* warehouse "W1", minimum 3) and item 2, whose sku is the capital letter
\* U+0416.  One admin at a time adds an item in an AddItem dialogue, typing
\* the unit "l" and the location "L2" or answering "-", pressing the prefill
\* buttons at any time, and starting over in the middle (the add button is
\* sent in every step).
InitAdd ==
    /\ admins = super_admins \cup {2}
    /\ items = {ItemRow(1, "a", "w", 2, "kg", "L", "W1", 3),
                ItemRow(2, "U+0416", "w", 2, DEFAULT_UNIT, NoneVal, NoneVal, 0)}
    /\ nextItemId = 3
    /\ warehouses = {WhRow(1, "W1")}
    /\ nextWhId = 2
    /\ movements = <<>>
    /\ nextMoveId = 1
    /\ sessions = [u \in Users |-> Cleared]
    /\ last = Event(0, "none", "none")

\* After the sku U+0436 the dialogue is not followed further, so "b" is the
\* one sku that can be added.
AddAnswers(u, st) ==
    CASE st = "AddItem:sku" -> {"A", "b", "U+0436"}
      [] st = "AddItem:name" -> IF DataOf(u)["sku"] = "U+0436" THEN {} ELSE {"w"}
      [] st = "AddItem:qty" -> {"1"}
      [] st = "AddItem:unit" -> {"-", "l"}
      [] st = "AddItem:location" -> {"-", "L2"}
      [] st = "AddItem:min_qty" -> {"-", "0"}
      [] OTHER -> {}

AddTexts == {BTN_ADD_ITEM, "/cancel", "A", "b", "U+0436", "w", "1", "-", "l", "L2", "0"}

PrefillCbs == {Cb("prefill_item", "skip"), Cb("prefill_item", "1"), Cb("prefill_item", "4")}

SelectCbs == {Cb("warehouse_select", "0"), Cb("warehouse_select", "1")}

AddSends(u, t) ==
    /\ OthersIdle(u)
    /\ t \in (IF Busy(u) THEN {BTN_ADD_ITEM, "/cancel"} \cup AddAnswers(u, StateOf(u))
              ELSE {BTN_ADD_ITEM})

AddMessage(u, t) ==
    \/ AddSends(u, t) /\ cmd_cancel(u, t)
    \/ AddSends(u, t) /\ add_item_start(u, t)
    \/ AddSends(u, t) /\ add_item_sku(u, t)
    \/ AddSends(u, t) /\ add_item_name(u, t)
    \/ AddSends(u, t) /\ add_item_qty(u, t)
    \/ AddSends(u, t) /\ add_item_unit(u, t)
    \/ AddSends(u, t) /\ add_item_location(u, t)
    \/ AddSends(u, t) /\ add_item_min(u, t)

AddCallback(u, c) ==
    \/ OthersIdle(u) /\ c \in PrefillCbs /\ add_item_prefill(u, c)
    \/ OthersIdle(u) /\ c \in SelectCbs /\ add_item_warehouse_select(u, c)

NextAdd ==
    \E u \in Users :
        \/ \E t \in AddTexts : AddMessage(u, t)
        \/ \E c \in PrefillCbs \cup SelectCbs : AddCallback(u, c)

SpecAdd == InitAdd /\ [][NextAdd]_vars

\* The steps of AddItem in their order and the handler that accepts each.
AddSteps ==
    <<"AddItem:sku", "AddItem:name", "AddItem:qty", "AddItem:unit", "AddItem:location",
      "AddItem:warehouse", "AddItem:min_qty">>

AddStepHandlers ==
    <<"add_item_sku", "add_item_name", "add_item_qty", "add_item_unit", "add_item_location",
      "add_item_warehouse_select", "add_item_min">>

\* C26: a session enters the first step of AddItem only by add_item_start
\* and every later step only from the step before it, by the handler of that
\* step (no step is skipped or entered again), and an item is inserted only
\* by add_item_min at the last step, which ends the dialogue.
C26_AddItemInOrder ==
    [][\A u \in Users :
          /\ \A k \in 2..Len(AddSteps) :
               (sessions'[u].state = AddSteps[k] /\ sessions[u].state # AddSteps[k]) =>
                   /\ sessions[u].state = AddSteps[k - 1]
                   /\ last'.user = u
                   /\ last'.handler = AddStepHandlers[k - 1]
          /\ (sessions'[u].state = AddSteps[1] /\ sessions[u].state # AddSteps[1]) =>
                 (last'.user = u /\ last'.handler = "add_item_start")
          /\ (items' # items /\ last'.user = u) =>
                 /\ sessions[u].state = AddSteps[Len(AddSteps)]
                 /\ last'.handler = "add_item_min"
                 /\ sessions'[u] = Cleared
                 /\ \E i \in items' : /\ items' = items \cup {i}
                                      /\ i.sku = DataOf(u)["sku"]
                                      /\ i.name = DataOf(u)["name"]
                                      /\ i.qty = DataOf(u)["qty"]]_vars

\* An item was added at the end of a dialogue.
C26_Witness ==
    /\ last.handler = "add_item_min"
    /\ last.reply = "item_added"
    /\ \E i \in items : i.id = 3 /\ i.sku = "b"
    /\ sessions[last.user] = Cleared

\* C27: at the sku step an input that equals the sku of an item ignoring
\* case is refused: the session stays as it is.
C27_DuplicateSkuRefused ==
    [][\A u \in Users : \A t \in AddTexts :
          (/\ StateOf(u) = "AddItem:sku"
           /\ \E i \in items : UnicodeLower(i.sku) = UnicodeLower(Strip(t))
           /\ AddMessage(u, t) /\ t \notin {BTN_ADD_ITEM, "/cancel"})
              => (last'.reply = "sku_exists" /\ UNCHANGED <<sessions, tables>>)]_vars

\* What holds instead: the input is refused when it equals a sku with the
\* case of the ASCII letters ignored.
C27_AsciiDuplicateSkuRefused ==
    [][\A u \in Users : \A t \in AddTexts :
          (/\ StateOf(u) = "AddItem:sku"
           /\ \E i \in items : SqlLower(i.sku) = SqlLower(Strip(t))
           /\ AddMessage(u, t) /\ t \notin {BTN_ADD_ITEM, "/cancel"})
              => (last'.reply = "sku_exists" /\ UNCHANGED <<sessions, tables>>)]_vars

\* The small letter was accepted as a new sku while item 2 has the capital.
C27_SmallLetterAccepted ==
    /\ last.handler = "add_item_sku"
    /\ StateOf(last.user) = "AddItem:name"
    /\ DataOf(last.user)["sku"] = "U+0436"
    /\ \E i \in items : i.sku = "U+0416"

\* The values of the session a prefill may not touch.
Kept(d) == <<Get(d, "sku"), Get(d, "name"), Get(d, "qty")>>

\* C28: a prefill button, applied or skipped, leaves the step of the session
\* and its sku, name and quantity as they are (it sets at most unit,
\* location, warehouse and min_qty) and changes no table.
C28_PrefillKeepsStep ==
    [][\A u \in Users : \A c \in PrefillCbs :
          AddCallback(u, c) =>
              /\ sessions'[u].state = sessions[u].state
              /\ Kept(sessions'[u].data) = Kept(sessions[u].data)
              /\ DOMAIN sessions'[u].data \subseteq
                    DOMAIN sessions[u].data \cup {"unit", "location", "warehouse", "min_qty"}
              /\ \A v \in Users \ {u} : sessions'[v] = sessions[v]
              /\ UNCHANGED tables]_vars

\* The prefill of item 1 was applied at the quantity step.
C28_Witness ==
    /\ last.handler = "add_item_prefill"
    /\ last.reply = "prefill_applied"
    /\ StateOf(last.user) = "AddItem:qty"
    /\ Get(DataOf(last.user), "unit") = "kg"
    /\ Get(DataOf(last.user), "sku") = "b"

\* C30: "-" at the unit or the location step gives the default (or the
\* value of a prefill), never a value typed in an earlier dialogue.  A unit
\* "l" or a location "L2" that the session holds at that step was typed in a
\* dialogue that was abandoned: a dialogue passes each step once, and a
\* dialogue that ended or was cancelled left no session.
C30_DashGivesDefault ==
    [][\A u \in Users :
          /\ (StateOf(u) = "AddItem:unit" /\ AddMessage(u, "-"))
                => sessions'[u].data["unit"] \in {DEFAULT_UNIT, "kg"}
          /\ (StateOf(u) = "AddItem:location" /\ AddMessage(u, "-"))
                => sessions'[u].data["location"] \in {NoneVal, "L"}]_vars

\* What holds instead: "-" gives the value the session holds, whatever
\* dialogue stored it, and the default when it holds none.
C30_DashGivesStored ==
    [][\A u \in Users :
          /\ (StateOf(u) = "AddItem:unit" /\ AddMessage(u, "-"))
                => sessions'[u].data["unit"] =
                      (IF Truthy(DataOf(u), "unit") THEN DataOf(u)["unit"] ELSE DEFAULT_UNIT)
          /\ (StateOf(u) = "AddItem:location" /\ AddMessage(u, "-"))
                => sessions'[u].data["location"] = Get(DataOf(u), "location")]_vars

\* After the unit step the session holds the location "L2" already: it is
\* left from the dialogue that was abandoned.
C30_LeftoverCommitted ==
    /\ last.handler = "add_item_unit"
    /\ StateOf(last.user) = "AddItem:location"
    /\ DataOf(last.user)["unit"] = "l"
    /\ Get(DataOf(last.user), "location") = "L2"

\* ------------------------------------------------------ other sessions
\* C29: the handling of an event of one user leaves the session of every
\* other user (state and data) as it is.
C29_OtherSessionsUnchanged ==
    [][\A u \in Users : last'.user # u => sessions'[u] = sessions[u]]_vars

\* Super admin 1 removed admin 2, who is in an AddItem dialogue with a sku
\* stored, and the dialogue of 2 is as it was.
C29_Witness ==
    /\ last.user = 1
    /\ last.handler = "admin_remove_tg_id"
    /\ 2 \notin admins
    /\ StateOf(2) = "AddItem:name"
    /\ Has(DataOf(2), "sku")
    /\ ~Busy(1)

\* ------------------------------------------------- quantity and movements
RECURSIVE SumDeltas(_, _)
\* The sum of the deltas of the movements of item id.
SumDeltas(moves, id) ==
    IF moves = <<>> THEN 0
    ELSE (IF Head(moves).item_id = id THEN Head(moves).delta ELSE 0) + SumDeltas(Tail(moves), id)

\* All the numbers in the history of item id are integers: the sum is exact.
IntegerHistory(i) ==
    /\ ~IsFraction(i.qty)
    /\ \A k \in 1..Len(movements) :
          movements[k].item_id = i.id => ~IsFraction(movements[k].delta)

\* The quantity the item of SpecQty was created with.
CreatedQty(i) == IF i.id = 1 THEN 2 ELSE 0

\* C31: between the handlers (each handler is one step), the quantity of
\* every item is the quantity it was created with plus the sum of the deltas
\* of its movements.  Stated for the items whose numbers are all integers,
\* where no sum is rounded.
C31_QtyIsSumOfMovements ==
    \A i \in items : IntegerHistory(i) => i.qty = CreatedQty(i) + SumDeltas(movements, i.id)

\* What holds instead: a commit changes the quantity of its item by the
\* delta of the movement it appends, unless it is the commit of a SetQty
\* dialogue whose item has another quantity by now than the dialogue read.
C31_CommitAddsItsDelta ==
    [][\A u \in Users : \A i \in items :
          (/\ last'.user = u
           /\ last'.reply = "qty_updated"
           /\ DataOf(u)["item_id"] = i.id
           /\ ~IsFraction(i.qty)
           /\ ~(last'.handler = "set_qty_note" /\ DataOf(u)["current_qty"] # i.qty))
              => /\ Len(movements') = Len(movements) + 1
                 /\ ~IsFraction(movements'[Len(movements')].delta)
                       => \E j \in items' :
                             /\ j.id = i.id
                             /\ j.qty = i.qty + movements'[Len(movements')].delta]_vars

\* Admin 2 added 1 while the SetQty dialogue of admin 1 held the quantity 2:
\* the item has 0, its movements are +1 and -2.
C31_StaleSetQty ==
    /\ Len(movements) = 2
    /\ movements[1].delta = 1
    /\ movements[2].delta = -2
    /\ \E i \in items : i.id = 1 /\ i.qty = 0
    /\ last.handler = "set_qty_note"

\* ---------------------------------------------------------- SpecAdjust
\* SpecAdjust: the store holds one item, whose quantity is 2 or 0.3, and
\* admins 1 and 2 each run one AdjustItem dialogue on it, by +1 or by -1, in
\* any interleaving of their steps.
AdjustQtys == {2, Fraction + 12}

InitAdjust ==
    /\ admins = super_admins \cup {2}
    /\ \E q \in AdjustQtys : items = {ItemRow(1, "a", "w", q, DEFAULT_UNIT, NoneVal, NoneVal, 0)}
    /\ nextItemId = 2
    /\ warehouses = {}
    /\ nextWhId = 1
    /\ movements = <<>>
    /\ nextMoveId = 1
    /\ sessions = [u \in Users |-> Cleared]
    /\ last = Event(0, "none", "none")

\* The dialogue of u is committed.
Adjusted(u) == \E k \in 1..Len(movements) : movements[k].admin_tg_id = u

AdjustAnswers(st) ==
    CASE st = "AdjustItem:key" -> {"a"}
      [] st = "AdjustItem:delta" -> {"+1", "-1"}
      [] st = "AdjustItem:note" -> {"-"}
      [] OTHER -> {}

AdjustTexts == {BTN_ADJUST_QTY, "a", "+1", "-1", "-"}

AdjustSends(u, t) ==
    t \in (IF Busy(u) THEN AdjustAnswers(StateOf(u))
           ELSE IF Adjusted(u) THEN {}
           ELSE {BTN_ADJUST_QTY})

AdjustMessage(u, t) ==
    \/ AdjustSends(u, t) /\ adjust_qty_start(u, t)
    \/ AdjustSends(u, t) /\ adjust_qty_key(u, t)
    \/ AdjustSends(u, t) /\ adjust_qty_delta(u, t)
    \/ AdjustSends(u, t) /\ adjust_qty_note(u, t)

NextAdjust == \E u \in Users : \E t \in AdjustTexts : AdjustMessage(u, t)

SpecAdjust == InitAdjust /\ [][NextAdjust]_vars

\* Both dialogues are committed.
BothAdjusted == Adjusted(1) /\ Adjusted(2)

\* The quantity the item of SpecAdjust had at first: adding 1 or -1 to an
\* integer gives an integer, to a fraction a fraction.
InitialQty(i) == IF IsFraction(i.qty) THEN Fraction + 12 ELSE 2

\* The commit of an AdjustItem dialogue appends one movement, with the delta
\* of the dialogue and its admin.
AdjustRecordsDelta ==
    [][\A u \in Users :
          (last'.user = u /\ last'.handler = "adjust_qty_note") =>
              \E m \in {movements'[Len(movements')]} :
                  /\ movements' = Append(movements, m)
                  /\ m.delta = DataOf(u)["delta"]
                  /\ m.admin_tg_id = u
                  /\ m.item_id = DataOf(u)["item_id"]]_vars

\* C32: when both dialogues are committed, in whatever order their steps
\* were taken, the quantity is the first quantity plus d1 + d2 and the
\* movements are exactly two, one with each delta.
C32_NoLostUpdate ==
    /\ [](BothAdjusted =>
            /\ Len(movements) = 2
            /\ \A i \in items :
                  i.qty = FloatAdd(InitialQty(i), movements[1].delta + movements[2].delta))
    /\ AdjustRecordsDelta

\* What holds instead: the quantity is the first quantity with one delta
\* added and then the other, each sum rounded to binary64.
C32_NoLostUpdateRounded ==
    /\ [](BothAdjusted =>
            /\ Len(movements) = 2
            /\ \A i \in items :
                  i.qty = FloatAdd(FloatAdd(InitialQty(i), movements[1].delta), movements[2].delta))
    /\ [][\A u \in Users :
            (last'.user = u /\ last'.handler = "adjust_qty_note") =>
                movements'[Len(movements')].delta = DataOf(u)["delta"]]_vars

\* The same for the item whose quantity is an integer: no update is lost.
C32_NoLostUpdateIntegers ==
    [](BothAdjusted =>
          \A i \in items :
              ~IsFraction(i.qty) => i.qty = 2 + movements[1].delta + movements[2].delta)

\* Both dialogues resolved the key at 0.3 and then committed +1 and -1: the
\* quantity is 0.30000000000000004.
C32_RoundedTwice ==
    /\ BothAdjusted
    /\ movements[1].delta + movements[2].delta = 0
    /\ \E i \in items : i.qty = Fraction + 13

\* ------------------------------------------------- prefill after a step
\* The steps of AddItem after the step that accepts key k.
StepsAfter(k) ==
    CASE k = "unit" -> {"AddItem:location", "AddItem:warehouse", "AddItem:min_qty"}
      [] k = "location" -> {"AddItem:warehouse", "AddItem:min_qty"}
      [] k = "warehouse" -> {"AddItem:min_qty"}

\* The commit of AddItem inserts the unit, location and warehouse that the
\* session holds.
C33_CommitTakesSessionValues ==
    [][\A u \in Users :
          (last'.user = u /\ last'.handler = "add_item_min" /\ last'.reply = "item_added") =>
              \E i \in items' \ items :
                  /\ i.unit = DataOf(u)["unit"]
                  /\ i.location = Get(DataOf(u), "location")
                  /\ i.warehouse = Get(DataOf(u), "warehouse")]_vars

\* C33: the item inserted has the unit, location and warehouse accepted at
\* their steps: the commit inserts the values of the session, and a prefill
\* button pressed after the step of a value was answered leaves that value
\* of the session as it is.
C33_AnswersKept ==
    /\ C33_CommitTakesSessionValues
    /\ [][\A u \in Users : \A c \in PrefillCbs : \A k \in {"unit", "location", "warehouse"} :
            (StateOf(u) \in StepsAfter(k) /\ AddCallback(u, c)) =>
                Get(sessions'[u].data, k) = Get(DataOf(u), k)]_vars

\* What holds instead: an applied prefill sets the four values of the
\* session to those of the item, in whatever step it is pressed.
C33_PrefillOverwrites ==
    [][\A u \in Users : \A c \in PrefillCbs :
          (AddCallback(u, c) /\ last'.reply = "prefill_applied") =>
              \E item \in get_item_by_id(ToInt(c.arg)) :
                  /\ sessions'[u].data["unit"] = item.unit
                  /\ sessions'[u].data["location"] = item.location
                  /\ sessions'[u].data["warehouse"] = item.warehouse
                  /\ sessions'[u].data["min_qty"] = item.min_qty]_vars

\* ---------------------------------------------- prefill outside AddItem
InAddItem(u) == \E k \in 1..Len(AddSteps) : StateOf(u) = AddSteps[k]

\* C34: a prefill button pressed by a user who is in no AddItem dialogue
\* leaves the session of the user as it is.
C34_PrefillOnlyInAddItem ==
    [][\A u \in Users : \A c \in PrefillCbs :
          (~InAddItem(u) /\ AddCallback(u, c)) => sessions'[u] = sessions[u]]_vars

\* What holds instead: outside AddItem the button leaves the session as it
\* is only when it is "skip" or names no item.
C34_PrefillSkippedOutside ==
    [][\A u \in Users : \A c \in PrefillCbs :
          (~InAddItem(u) /\ AddCallback(u, c) /\ last'.reply # "prefill_applied")
              => sessions'[u] = sessions[u]]_vars

\* An idle admin pressed the prefill button of item 1: there is no dialogue,
\* and the session holds the unit of the item.
C34_PrefillWhileIdle ==
    /\ last.handler = "add_item_prefill"
    /\ last.reply = "prefill_applied"
    /\ ~Busy(last.user)
    /\ Get(DataOf(last.user), "unit") = "kg"
    /\ ~Has(DataOf(last.user), "sku")

\* ------------------------------------------------ super-admins as admins
\* C35: after startup every configured super-admin is in the admins table.
C35_SuperAdminsAreAdmins == super_admins \subseteq admins

\* What holds instead: a super-admin leaves the admins table only by the
\* RemoveAdmin dialogue of a super-admin, which takes any id.
C35_RemovedBySuperAdminOnly ==
    [][\A s \in super_admins :
          (s \in admins /\ s \notin admins') =>
              /\ last'.handler = "admin_remove_tg_id"
              /\ last'.user \in super_admins
              /\ last'.reply = "admin_removed"]_vars

\* The super-admin removed itself: no super-admin is an admin, and its next
\* event is denied.
C35_SuperAdminRemovedItself ==
    /\ last.user \in super_admins
    /\ last.handler = "public_fallback"
    /\ last.reply = DENIED
    /\ super_admins \cap admins = {}

\* --------------------------------------------------- warehouses of items
\* Every item of its names no warehouse or a row of whs.
WarehousesKnown(its, whs) ==
    \A i \in its : i.warehouse = NoneVal \/ \E w \in whs : w.name = i.warehouse

\* C36: the warehouse of every item is empty or the name of a row of the
\* warehouses table.
C36_ItemWarehouseExists == WarehousesKnown(items, warehouses)

\* What holds instead: only the value step of UpdateItem gives an item a
\* warehouse that the table does not hold.
C36_OnlyUpdateBreaks ==
    [][(WarehousesKnown(items, warehouses) /\ ~WarehousesKnown(items', warehouses'))
          => last'.handler = "update_item_value"]_vars

\* The warehouse of item 2 was set to "b" in an UpdateItem dialogue; the
\* only warehouse is "W1".
C36_UnknownWarehouse ==
    /\ last.handler = "update_item_value"
    /\ last.reply = "item_updated"
    /\ \E i \in items : i.id = 2 /\ i.warehouse = "b"
    /\ \A w \in warehouses : w.name # "b"

\* ------------------------------------------------------------ SpecSkip
\* SpecSkip: the store holds item 1 with sku "a" and no warehouse row, and an
\* admin sends BulkAdd texts of up to SkipRows lines: rows with the sku "a"
\* (with a warehouse and without), a row without qty, a row with a warehouse
\* whose min_qty is no number, a row with a warehouse whose qty is nan, and
\* rows with a new sku.
SkipRows == 2

InitSkip ==
    /\ admins = super_admins \cup {2}
    /\ items = {ItemRow(1, "a", "w", 2, DEFAULT_UNIT, NoneVal, NoneVal, 0)}
    /\ nextItemId = 2
    /\ warehouses = {}
    /\ nextWhId = 1
    /\ movements = <<>>
    /\ nextMoveId = 1
    /\ sessions = [u \in Users |-> Cleared]
    /\ last = Event(0, "none", "none")

SkipLines ==
    { <<"a", "w", "1", "", "", "W1">>, <<"a", "w", "1">>, <<"b", "w">>,
      <<"b", "w", "1", "", "", "W2", "x">>, <<"n", "w", "nan", "", "", "W3">>,
      <<"c", "w", "1", "", "", "W1">>, <<"d", "w", "2">> }

SkipTexts == UNION {[1..n -> SkipLines] : n \in 1..SkipRows}

NextSkip ==
    \E u \in super_admins :
        \/ \E t \in {BTN_BULK_ADD} : BulkStarts(u, t)
        \/ \E lines \in SkipTexts : bulk_add_process(u, lines)

SpecSkip == InitSkip /\ [][NextSkip]_vars

\* The step is the processing of a BulkAdd text that created nothing: every
\* row of it was reported as skipped or as a row error.
NothingCreated ==
    /\ last'.reply = "bulk_done"
    /\ bulk_add_process(last'.user, last'.lines)
    /\ last'.created = 0

\* C37: a BulkAdd text whose rows are all reported as skipped or as row
\* errors leaves the items and the warehouses as they were.
C37_SkippedRowsChangeNothing ==
    [][NothingCreated => (items' = items /\ warehouses' = warehouses /\ nextWhId' = nextWhId)]_vars

\* What holds instead: such a text creates no item, and no warehouse either
\* when none of its rows is reported as skipped (all are malformed).
C37_SkippedRowsCreateNoItem ==
    [][NothingCreated =>
          /\ items' = items /\ nextItemId' = nextItemId
          /\ last'.skipped = 0 => (warehouses' = warehouses /\ nextWhId' = nextWhId)]_vars

\* The row "a,w,1,,,W1" was skipped, its sku being that of item 1, and the
\* warehouse W1 is there.
C37_WarehouseOfSkippedRow ==
    /\ last.reply = "bulk_done"
    /\ last.lines = << <<"a", "w", "1", "", "", "W1">> >>
    /\ last.created = 0
    /\ last.skipped = 1
    /\ \E w \in warehouses : w.name = "W1"
    /\ \A i \in items : i.warehouse = NoneVal

\* ------------------------------------------------------------- SpecIds
\* SpecIds: the store holds item 1 with sku "a".  Admins 1 and 2 run
\* AdjustItem and DeleteItem dialogues on the key "a", "1" or "2" and add
\* items with the sku "a" or "b" by BulkAdd texts of one row, at the same
\* time: an item is deleted and others are created while a dialogue holds
\* its id.
IdsItems == 3

IdsMoves == 1

InitIds ==
    /\ admins = super_admins \cup {2}
    /\ items = {ItemRow(1, "a", "w", 2, DEFAULT_UNIT, NoneVal, NoneVal, 0)}
    /\ nextItemId = 2
    /\ warehouses = {}
    /\ nextWhId = 1
    /\ movements = <<>>
    /\ nextMoveId = 1
    /\ sessions = [u \in Users |-> Cleared]
    /\ last = Event(0, "none", "none")

IdsBound == nextItemId <= IdsItems + 1 /\ nextMoveId <= IdsMoves + 1

IdsAnswers(st) ==
    CASE st \in {"AdjustItem:key", "DeleteItem:key"} -> {"a", "1", "2"}
      [] st = "AdjustItem:delta" -> {"+1"}
      [] st = "AdjustItem:note" -> {"-"}
      [] st = "DeleteItem:confirm" -> {"da"}
      [] OTHER -> {}

IdsTexts == {BTN_ADJUST_QTY, BTN_DELETE_ITEM, BTN_BULK_ADD, "a", "1", "2", "+1", "-", "da"}

IdsRows == {<< <<"a", "w", "1">> >>, << <<"b", "w", "1">> >>}

IdsSends(u, t) ==
    t \in (IF Busy(u) THEN IdsAnswers(StateOf(u))
           ELSE {BTN_ADJUST_QTY, BTN_DELETE_ITEM, BTN_BULK_ADD})

IdsMessage(u, t) ==
    \/ IdsSends(u, t) /\ adjust_qty_start(u, t)
    \/ IdsSends(u, t) /\ adjust_qty_key(u, t)
    \/ IdsSends(u, t) /\ adjust_qty_delta(u, t)
    \/ IdsSends(u, t) /\ adjust_qty_note(u, t) /\ IdsBound'
    \/ IdsSends(u, t) /\ delete_item_start(u, t)
    \/ IdsSends(u, t) /\ delete_item_key(u, t)
    \/ IdsSends(u, t) /\ delete_item_confirm(u, t)
    \/ IdsSends(u, t) /\ bulk_add_start(u, t)

IdsBulk(u, lines) == bulk_add_process(u, lines) /\ IdsBound'

NextIds ==
    \E u \in Users :
        \/ \E t \in IdsTexts : IdsMessage(u, t)
        \/ \E lines \in IdsRows : IdsBulk(u, lines)

SpecIds == InitIds /\ [][NextIds]_vars

Ids(its) == {i.id : i \in its}

\* C38: the id of an item is never given to another item.  Every id in the
\* items table and every item_id a session holds is below the next id of
\* the table, the next id never goes down, and a row that comes into the
\* table gets an id from the next id on; so the id a dialogue resolved
\* denotes the resolved item or, once that is deleted, no item.
C38_IdsNeverReused ==
    /\ [](\A i \in items : i.id < nextItemId)
    /\ [](\A u \in Users : Has(DataOf(u), "item_id") => DataOf(u)["item_id"] < nextItemId)
    /\ [][/\ nextItemId' >= nextItemId
          /\ \A j \in items' : j.id \notin Ids(items) => j.id >= nextItemId
          /\ \A j \in items' : \A k \in items' : j.id = k.id => j = k]_vars

\* The dialogue of admin 1 resolved item 1; the item was deleted and an item
\* with the same sku was created with id 2; the commit of admin 1 met no
\* item (it raised) and the new item has the quantity it was created with.
C38_Witness ==
    /\ last.handler = "adjust_qty_note"
    /\ last.reply = UNHANDLED
    /\ DataOf(last.user)["item_id"] = 1
    /\ items = {ItemRow(2, "a", "w", 1, DEFAULT_UNIT, NoneVal, NoneVal, 0)}
    /\ movements = <<>>

\* ---------------------------------------------------- navigation buttons
\* keyboards.pagination_kb and the nav row of warehouse_sort_kb: the buttons
\* offered for (page, total_pages), each with the page it asks for.
pagination_kb(page, total_pages) ==
    (IF page > 1 THEN {[text |-> "prev", page |-> page - 1]} ELSE {})
    \cup (IF page < total_pages THEN {[text |-> "next", page |-> page + 1]} ELSE {})

\* The last event showed a page of a list.
PageShown == last.reply \in {"items_page", "no_items"}

\* The buttons of keyboard kb are those of the page shown of pages.
ButtonsMatch(kb, shown, pages) ==
    /\ (\E b \in kb : b.text = "prev") <=> shown > 1
    /\ (\E b \in kb : b.text = "next") <=> shown < pages
    /\ \A b \in kb : b.page \in 1..pages

\* C39: after every page request the buttons under the list are those of
\* the page displayed: "previous" exactly when it is beyond page 1, "next"
\* exactly when it is before the last page, both asking for a page in
\* 1..total pages.
C39_ButtonsMatchShownPage ==
    PageShown => ButtonsMatch(pagination_kb(last.kb_page, last.pages), last.page, last.pages)

\* What holds instead: the buttons are those of the page asked for; they are
\* those of the page displayed when the page asked for is in 1..total pages.
C39_ButtonsMatchAskedPage ==
    PageShown =>
        /\ (\E b \in pagination_kb(last.kb_page, last.pages) : b.text = "prev") <=> last.kb_page > 1
        /\ (\E b \in pagination_kb(last.kb_page, last.pages) : b.text = "next")
              <=> last.kb_page < last.pages
        /\ last.kb_page \in 1..last.pages =>
              (/\ last.page = last.kb_page
               /\ ButtonsMatch(pagination_kb(last.kb_page, last.pages), last.page, last.pages))

\* The list has one page; the button "next" of an older rendering asked for
\* page 3: page 1 of 1 is displayed with a button "previous" that asks for
\* page 2.
C39_PreviousOnFirstPage ==
    /\ last.handler = "list_items_callback"
    /\ last.reply = "items_page"
    /\ last.kb_page = 3
    /\ last.page = 1
    /\ last.pages = 1
    /\ [text |-> "prev", page |-> 2] \in pagination_kb(last.kb_page, last.pages)

\* ---------------------------------------------------------- SpecRender
\* render_items_page awaits db.count_items() and then db.list_items(); the
\* handlers run as tasks on one connection, so a statement of another
\* handler can run between the two.  RenderEvent is the page event when the
\* list had counted rows at the count and has present rows at the fetch.
RenderEvent(u, h, counted, present, page, kb_page) ==
    LET shown == ClampPage(page, TotalPages(counted)) IN
    [Event(u, h, IF RowsOnPage(present, shown) = 0 THEN "no_items" ELSE "items_page")
       EXCEPT !.page = shown, !.pages = TotalPages(counted), !.kb_page = kb_page]

\* list_items_callback of u, with the DELETE of the delete_item_confirm of
\* admin v between its count and its fetch; both handlers end in this step.
list_items_callback_during_delete(u, c, v) ==
    /\ CbRouted(u, c, "list_items_callback")
    /\ v # u
    /\ Routed(v, "da", "delete_item_confirm")
    /\ last' = RenderEvent(u, "list_items_callback", count_items,
                           Cardinality(delete_item_rows(DataOf(v)["item_id"])), c.page, c.page)
    /\ items' = delete_item_rows(DataOf(v)["item_id"])
    /\ movements' = delete_item_moves(DataOf(v)["item_id"])
    /\ sessions' = [sessions EXCEPT ![v] = Cleared]
    /\ UNCHANGED <<admins, nextItemId, warehouses, nextWhId, nextMoveId>>

\* SpecRender: the store holds one item or one more than one or two pages of
\* them;
\* admin 2 deletes items by id in DeleteItem dialogues and admin 1 asks for
\* pages of the list, between the handlers of admin 2 or during the commit
\* of one.
InitRender ==
    \E n \in {1, PAGE_SIZE + 1, 2 * PAGE_SIZE + 1} :
        /\ admins = super_admins \cup {2}
        /\ items = {ItemRow(i, ToString(i), "w", 1, DEFAULT_UNIT, NoneVal, NoneVal, 0) : i \in 1..n}
        /\ nextItemId = n + 1
        /\ warehouses = {}
        /\ nextWhId = 1
        /\ movements = <<>>
        /\ nextMoveId = 1
        /\ sessions = [u \in Users |-> Cleared]
        /\ last = Event(0, "none", "none")

RenderCbs == {[cmd |-> "list_items", arg |-> "", sort |-> "name", page |-> p] : p \in 1..3}

RenderAnswers(st) ==
    CASE st = "DeleteItem:key" -> {"1", "2", "3"}
      [] st = "DeleteItem:confirm" -> {"da"}
      [] OTHER -> {}

RenderTexts == {BTN_DELETE_ITEM, "1", "2", "3", "da"}

RenderSends(u, t) ==
    /\ u = 2
    /\ t \in (IF Busy(u) THEN RenderAnswers(StateOf(u)) ELSE {BTN_DELETE_ITEM})

RenderMessage(u, t) ==
    \/ RenderSends(u, t) /\ delete_item_start(u, t)
    \/ RenderSends(u, t) /\ delete_item_key(u, t)
    \/ RenderSends(u, t) /\ delete_item_confirm(u, t)

RenderCallback(u, c) ==
    \/ u = 1 /\ list_items_callback(u, c)
    \/ u = 1 /\ \E v \in Users : list_items_callback_during_delete(u, c, v)

NextRender ==
    \E u \in Users :
        \/ \E t \in RenderTexts : RenderMessage(u, t)
        \/ \E c \in RenderCbs : RenderCallback(u, c)

SpecRender == InitRender /\ [][NextRender]_vars

\* C40: a page request answers "no items" only if the list was empty at
\* some moment of its handling, at its start or at its end.
C40_EmptyOnlyIfEmpty ==
    [][\A u \in Users : \A c \in RenderCbs :
          (RenderCallback(u, c) /\ last'.reply = "no_items") => (items = {} \/ items' = {})]_vars

\* What holds instead: a page request that no other handler runs into
\* answers "no items" exactly when the list is empty.
C40_EmptyOnlyIfEmptyAlone ==
    [][\A u \in Users : \A c \in RenderCbs :
          list_items_callback(u, c) => (last'.reply = "no_items" <=> items = {})]_vars

\* Page 2 of 2 was counted over 11 items; one was deleted before the fetch:
\* "no items" is answered and the list has 10 items.
C40_EmptyPageOfTen ==
    /\ last.handler = "list_items_callback"
    /\ last.reply = "no_items"
    /\ last.page = 2
    /\ last.pages = 2
    /\ Cardinality(items) = PAGE_SIZE

====
